---- MODULE Spec2Model ----
(***************************************************************************)
(* Model of the notebook flows of the PlanetaryComputer examples.          *)
(*                                                                         *)
(* Every notebook is a sequential flow of cells; `nb` names the notebook   *)
(* that is being run and `pc` the cell (or the step inside a cell) that    *)
(* runs next.  A cell that raises stops the flow: pc = "error" and `err`   *)
(* names the exception.  Remote services are the environment: every        *)
(* response is drawn from the responses the service can give.              *)
(***************************************************************************)
EXTENDS Integers, Sequences, FiniteSets, TLC

VARIABLES
    nb,         \* the notebook (flow) being run
    pc,         \* the cell / step that runs next, "done" or "error"
    err,        \* the exception that stopped the flow ("none" while running)
    matched,    \* server side: the items of the collections searched
    max_items,  \* catalog.search(max_items=...); 0 models None (no cap)
    query,      \* the search parameters: "ok", or what is wrong with them
    gen,        \* the generator behind search.items(): state, position of the
                \* last item fetched, items fetched and not yet yielded
    items,      \* the items handed to the consumer so far
    nreq,       \* remote requests issued in this run
    last,       \* outcome of the latest remote request of this run
    area_of_interest,   \* the AOI box of the NAIP notebook
    subscription_key,   \* a subscription key is configured (PC_SDK_SUBSCRIPTION_KEY)
    convergence,    \* ds.crs: half pixels of easting per degree of latitude
                    \* (0 when the asset's grid is aligned with the meridians)
    attempts,   \* token requests pc.sign has retried so far
    item,       \* the items the cells selected or loaded (NAIP: item_old, item_new)
    opened,     \* hrefs (and storage options) of the assets opened so far
    img,        \* sizes <<w, h>> of the images create_image returned so far
    collection, \* the collection literal of the mosaic cells
    registered, \* the parsed body of the registration response: <<>> or <<body>>
    tilejson_url,   \* <<>> or <<url>>
    render_options, \* <<>> or <<options>>
    tiles,      \* the tile-URL template: <<>> or <<template>>
    layer_url,  \* the url of the map's TileLayer: <<>> or <<template>>
    got,        \* the url of the latest GET of the mosaic cells: <<>> or <<url>>
    gateway,    \* a Dask gateway is available to the notebook
    cluster,    \* the FIA notebook holds a cluster and its client
    plot,       \* the rows of the plot table, once read: <<>> or <<rows>>
    tree,       \* the rows the server holds of the tree table, once the
                \* computation read it: <<>> or <<rows>>
    result,     \* the per-county result of the FIA notebook: <<>> or <<table>>
    gdf,        \* the result joined with the counties: <<>> or <<table>>
    api_key,    \* MLHUB_API_KEY, as typed at the getpass prompt
    session_params, \* session.params of the MLHubSession: <<>> or <<<<k, v>>, ...>>
    sent,       \* the latest request the session sent: <<>> or <<request>>
    selected,   \* position in items of the dropdown's value, 0 if it has none
    center,     \* m.center: <<>> (the default) or <<latitude, longitude>>
    layer_data, \* layer.data: <<>> (the default) or <<geometry>>
    stations,   \* server side: the rows of the table of the climate normals
    normals_df, \* the table of the climate normals, once loaded: <<>> or <<rows>>
    shown,      \* the stations on the map of the climate normals: <<>> or <<rows>>
    archive,    \* content of the archive file on disk: <<>> or <<content>>
    r_json,     \* <<>> or <<the decoded body of the item's tilejson response>>
    tmp_dir,    \* tmp_dir of the kernel: <<>> or <<name of the directory>>
    dirs,       \* the temporary directories that exist on disk
    datasets,   \* <<>> or <<the decoded body of the /datasets response>>
    collections \* <<>> or <<what the generator of collections has yet to yield>>

vars == <<nb, pc, err, matched, max_items, query, gen, items, nreq, last,
          area_of_interest, subscription_key, convergence, attempts, item, opened, img, collection, registered,
          tilejson_url, render_options, tiles, layer_url, got, gateway, cluster,
          plot, tree, result, gdf, api_key, session_params, sent, selected, center, layer_data,
          stations, normals_df, shown, archive, tmp_dir, dirs, r_json,
          datasets, collections>>

----------------------------------------------------------------------------
(* Bounds of the model                                                     *)

MaxMatched == 3     \* items the server holds for a search
MaxPage == 2        \* items the server puts on one page
MaxCap == 3         \* largest result cap tried (max_items)
MaxRetry == 1       \* retries of the token request modelled (retry_total)
MaxTrees == 2       \* rows of the tree table
MaxStations == 2    \* rows of the table of the climate normals
MaxRedirects == 1   \* redirects that answer one request
MaxDirs == 2        \* temporary directories that may exist at a time

----------------------------------------------------------------------------
(* Values                                                                  *)

Notebooks == {"browse", "naip", "nicfi", "fia", "data_api", "mlhub", "normals"}

\* The notebooks that search the STAC catalog or read items from it.
Stac == {"browse", "naip", "nicfi", "fia", "normals"}

\* Outcomes of one remote request: an answer, or a transient failure.
Transient == {"timeout", "5xx"}

\* Item geometries are axis-aligned boxes <<xmin, ymin, xmax, ymax>>.
Geometries == {<<0, 0, 2, 2>>, <<1, 0, 3, 2>>, <<2, 0, 4, 2>>}
Datetimes == {1, 2}

\* Timestamps of the items of the browse notebook: a date and a time of day,
\* 11 and 12 on the date 1, 21 on the date 2.
Timestamps == {11, 12, 21}
DateOf(t) == t \div 10

\* "datetime": null, item.datetime is None: a STAC item may have a
\* start_datetime and an end_datetime in the place of its datetime.
NoDatetime == 0

\* datetime="2023-04-01", the date the browse notebook asks for.
search_datetime == 1

\* An href is the sequence of its parts; "?" starts the query string.
BlobHref == <<"blob.core.windows.net", "naip", "img.tif">>

\* Storage options of a table asset: <<>> (none) or <<account>>; signing adds
\* the credential: <<account, "credential">>.
Item(i, g, d, h, so, c) ==
    [id |-> i, collection_id |-> c, geometry |-> g, datetime |-> d,
     assets |-> [href |-> h, storage_options |-> so]]

----------------------------------------------------------------------------
(* The browse notebook: the callback of the dropdown                        *)

\* shape.centroid.coords[0] of a box <<west, south, east, north>>: (x, y),
\* that is (longitude, latitude).
centroid(g) == <<(g[1] + g[3]) \div 2, (g[2] + g[4]) \div 2>>

\* Centres (latitude, longitude) the front end of the map may report for
\* its view.
Views == {<<0, 0>>, <<1, 1>>, <<2, 3>>}

\* s[::-1]
Reversed(s) == [i \in 1..Len(s) |-> s[Len(s) + 1 - i]]

\* browse with the centroid taken as it comes: (longitude, latitude).
browse_lon_lat(it) ==
    [center |-> centroid(it.geometry), data |-> <<it.geometry>>]

\* def browse(item): what the callback assigns to m.center and to layer.data.
browse(it) ==
    [center |-> Reversed(centroid(it.geometry)), data |-> <<it.geometry>>]

\* The map after interact called browse(it).  shape(item) raises for an item
\* without geometry, before anything is assigned; item.datetime.isoformat()
\* raises for an item without datetime, in the print that follows the two
\* assignments.  interact shows the traceback and goes on.
Callback(it, c, d) ==
    IF it.geometry = <<>> THEN [center |-> c, data |-> d] ELSE browse(it)

----------------------------------------------------------------------------
(* Signing: planetary_computer.sign / sign_inplace                          *)

SASToken == <<"st", "se", "sp", "sig">>

RECURSIVE IndexOf(_, _, _)
\* Position of the first element x of s at or after position i, 0 if none.
IndexOf(s, x, i) ==
    IF i > Len(s) THEN 0
    ELSE IF s[i] = x THEN i
    ELSE IndexOf(s, x, i + 1)

\* The part of an href before its query string.
BasePath(h) ==
    LET q == IndexOf(h, "?", 1)
    IN  IF q = 0 THEN h ELSE SubSeq(h, 1, q - 1)

\* The query parameters of an href.
Query(h) ==
    LET q == IndexOf(h, "?", 1)
    IN  IF q = 0 THEN <<>> ELSE SubSeq(h, q + 1, Len(h))

is_blob_storage_domain(h) == Len(h) > 0 /\ h[1] = "blob.core.windows.net"

\* An href that already carries SAS parameters is left alone.
is_signed(h) ==
    \E i \in 1..Len(Query(h)) : Query(h)[i] \in {"st", "se", "sp"}

\* A slip: the token URL replaces the href instead of being appended to it.
sign_replacing(h) ==
    IF ~is_blob_storage_domain(h) \/ is_signed(h) THEN h
    ELSE <<"blob.core.windows.net", "?">> \o SASToken

\* pc.sign(href): f"{href}?{token}" for an unsigned blob-storage href,
\* the href itself otherwise.
sign(h) ==
    IF ~is_blob_storage_domain(h) \/ is_signed(h) THEN h
    ELSE h \o <<"?">> \o SASToken

\* Signing an asset: the href is signed, and the storage options of an
\* abfs:// table asset that name an account get the credential.
sign_asset(a) ==
    [href |-> sign(a.href),
     storage_options |->
        IF a.href[1] = "abfs" /\ Len(a.storage_options) = 1
        THEN a.storage_options \o <<"credential">>
        ELSE a.storage_options]

\* A slip: the item is rebuilt from its assets only and loses its footprint.
sign_inplace_rebuilding(it) ==
    [it EXCEPT !.geometry = <<>>, !.assets = sign_asset(@)]

\* planetary_computer.sign_inplace(item): signs every asset of the item.
sign_inplace(it) == [it EXCEPT !.assets = sign_asset(@)]

----------------------------------------------------------------------------
(* The catalog client: Client.open, catalog.search, search.items()          *)

Min(a, b) == IF a < b THEN a ELSE b

\* Notebooks whose client is opened with modifier=planetary_computer.sign_inplace.
Signing == {"nicfi", "fia", "normals"}

\* The client applies its modifier to every item it returns.
modifier(n, it) == IF n \in Signing THEN sign_inplace(it) ELSE it

\* The generator before its first next().
NewGen == [st |-> "new", off |-> 0, buf |-> <<>>, nitems |-> 0, more |-> FALSE]

\* A slip: the cap is not looked at.
CapIgnored(n, cap) == FALSE

\* `if self._max_items and nitems >= self._max_items: return`
CapReached(n, cap) == cap /= 0 /\ n >= cap

\* What the generator does when it is resumed after a yield: count the item
\* it yielded, and return when the cap is reached.
Resume(g, cap) ==
    IF g.st /= "suspended" THEN g
    ELSE IF CapReached(g.nitems + 1, cap)
         THEN [g EXCEPT !.nitems = @ + 1, !.st = "done"]
         ELSE [g EXCEPT !.nitems = @ + 1, !.st = "running"]

\* The boxes share at least a point (intersects=...: touching counts).
Intersects(a, b) ==
    a[1] <= b[3] /\ b[1] <= a[3] /\ a[2] <= b[4] /\ b[2] <= a[4]

\* range_old = '2010-01-01/2013-01-01', range_new = '2018-01-01/2020-01-01':
\* the datetimes that fall into each range.
range_old == {1}
range_new == {2}

\* point = {"type": "Point", "coordinates": (...)}, as a box without extent.
point == <<1, 1, 1, 1>>

\* The instant the server files an item under: its datetime, or the
\* start_datetime of an item without one, here the first instant of the date
\* asked for.
instant(it) ==
    IF it.datetime = NoDatetime THEN 10 * search_datetime ELSE it.datetime

\* datetime="2023-04-01": the item's instant falls on the requested date.
datetime_matches(it) == DateOf(instant(it)) = search_datetime

RECURSIVE InsertByDatetime(_, _)
\* x put into the list s, ascending by datetime, behind its equals.
InsertByDatetime(s, x) ==
    IF s = <<>> THEN <<x>>
    ELSE IF instant(x) < instant(Head(s)) THEN <<x>> \o s
    ELSE <<Head(s)>> \o InsertByDatetime(Tail(s), x)

RECURSIVE sortby_datetime(_)
\* sortby="datetime": the result in ascending order of the timestamps.
sortby_datetime(s) ==
    IF s = <<>> THEN <<>>
    ELSE InsertByDatetime(sortby_datetime(SubSeq(s, 1, Len(s) - 1)), s[Len(s)])

\* What the server selects from the items h it holds for the search a cell
\* p consumes. NAIP: intersects=area_of_interest and datetime=range_old or
\* range_new; NICFI: collections=["planet-nicfi-visual"] for the first
\* search, ["planet-nicfi-analytic"] for the second, and intersects=point;
\* browse: datetime="2023-04-01" and sortby="datetime"; the other result
\* lists are held as the server returns them.
ServerSearch(n, h, p) ==
    CASE n = "browse" -> sortby_datetime(SelectSeq(h, datetime_matches))
      [] n = "naip" ->
            SelectSeq(h, LAMBDA it :
                /\ Intersects(it.geometry, area_of_interest)
                /\ it.datetime \in (IF p = "sort_new" THEN range_new
                                                     ELSE range_old))
      [] n = "nicfi" ->
            SelectSeq(h, LAMBDA it :
                /\ it.collection_id = (IF p = "next" THEN "planet-nicfi-analytic"
                                                      ELSE "planet-nicfi-visual")
                /\ Intersects(it.geometry, point))
      [] OTHER -> h

\* The result list of the search in progress.
Found == ServerSearch(nb, matched, pc)

\* The identifiers of the result list, in its order.
Indices == [i \in 1..Len(Found) |-> Found[i].id]

\* What the server lists for the `next` link of a page that ended with the
\* item at position `off` (0: the first page).  A link that identifies the
\* place by the item lists the items after it.  For a result sorted by
\* datetime alone the link may identify the place by the sort key only
\* (rewind): the server then lists every item whose datetime is not before
\* that of the last item, except that item, so the items that share its
\* datetime come again (recorded result: positions 32..99 repeat at 101..168).
Continuation(off, rewind) ==
    IF off = 0 THEN Indices
    ELSE IF rewind
    THEN SelectSeq(Indices,
                   LAMBDA i : i /= off /\ instant(matched[i]) >= instant(matched[off]))
    ELSE SubSeq(Indices, IndexOf(Indices, off, 1) + 1, Len(Indices))

\* The page of at most k items the server returns for that link.
Page(off, k, rewind) ==
    LET c == Continuation(off, rewind)
    IN  [j \in 1..Min(k, Len(c)) |-> matched[c[j]]]

\* The searches whose result is sorted by datetime alone (sortby="datetime").
SortedByDatetime == {"browse"}

\* What may be wrong with the parameters of catalog.search(...).
Queries == {"ok", "bad_filter", "unknown_collection"}

\* The statuses the search endpoint may answer with: a well-formed search is
\* answered or fails transiently, a malformed filter is rejected (4xx), an
\* unknown collection is rejected or matches nothing.
Statuses ==
    CASE query = "ok" -> {"ok"} \cup Transient
      [] query = "bad_filter" -> {"4xx"} \cup Transient
      [] query = "unknown_collection" -> {"ok", "4xx"} \cup Transient

\* Answers of the search endpoint to one page request.
Responses ==
    {[kind |-> t, n |-> k, rewind |-> w] :
        k \in 1..MaxPage, t \in Statuses \cap {"ok"},
        w \in (IF nb \in SortedByDatetime THEN BOOLEAN ELSE {FALSE})}
        \cup {[kind |-> t, n |-> 0, rewind |-> FALSE] : t \in Statuses \ {"ok"}}

\* One next() on search.items() with the answer r to the page request it may
\* issue: the generator afterwards, what the consumer gets ("yield" with the
\* item, "stop" for StopIteration, "raise" for an APIError), and whether a
\* page was requested.
GenStep(g0, cap, r) ==
    LET g == Resume(g0, cap) IN
    IF g.st = "done"
    THEN [gen |-> g, out |-> "stop", item |-> <<>>, req |-> FALSE]
    ELSE IF g.buf /= <<>>
    THEN [gen |-> [g EXCEPT !.st = "suspended", !.buf = Tail(@)],
          out |-> "yield", item |-> <<modifier(nb, Head(g.buf))>>, req |-> FALSE]
    ELSE IF ~(g.st = "new" \/ g.more)
    THEN [gen |-> [g EXCEPT !.st = "done"],
          out |-> "stop", item |-> <<>>, req |-> FALSE]
    ELSE IF r.kind /= "ok"
    THEN [gen |-> [g EXCEPT !.st = "done"],
          out |-> "raise", item |-> <<>>, req |-> TRUE]
    ELSE LET page == Page(g.off, r.n, r.rewind) IN
         IF page = <<>>
         THEN [gen |-> [g EXCEPT !.st = "done"],
               out |-> "stop", item |-> <<>>, req |-> TRUE]
         ELSE [gen |-> [st |-> "suspended", off |-> page[Len(page)].id,
                        buf |-> Tail(page), nitems |-> g.nitems,
                        more |-> IndexOf(Indices, page[Len(page)].id, 1)
                                    < Len(Indices)],
               out |-> "yield", item |-> <<modifier(nb, Head(page))>>,
               req |-> TRUE]

\* The bookkeeping of a remote request: count it, remember its outcome.
Requested(outcome) == nreq' = nreq + 1 /\ last' = outcome
NoRequest == UNCHANGED <<nreq, last>>

\* A cell raised: the flow stops.
Raise(e) == pc' = "error" /\ err' = e

----------------------------------------------------------------------------
(* NAIP notebook: area-overlap ranking and create_image                     *)

Max(a, b) == IF a > b THEN a ELSE b

\* Area of a box <<xmin, ymin, xmax, ymax>>; an empty box has area 0.
Area(b) == Max(0, b[3] - b[1]) * Max(0, b[4] - b[2])

\* shape(a).intersection(shape(b)) for boxes.
Intersection(a, b) ==
    <<Max(a[1], b[1]), Max(a[2], b[2]), Min(a[3], b[3]), Min(a[4], b[4])>>

\* The boxes share no point at all.
Disjoint(a, b) ==
    a[3] < b[1] \/ b[3] < a[1] \/ a[4] < b[2] \/ b[4] < a[2]

\* target_area = area_shape.area
target_area == Area(area_of_interest)

\* area_of_overlap(item): overlap_area / target_area, kept as the fraction
\* <<overlap_area, target_area>>.
area_of_overlap(it) ==
    <<Area(Intersection(it.geometry, area_of_interest)), target_area>>

\* p < q for fractions with positive denominators.
Less(p, q) == p[1] * q[2] < q[1] * p[2]

RECURSIVE InsertDesc(_, _)
\* x put into the descending list s behind every element that is not smaller.
InsertDesc(s, x) ==
    IF s = <<>> THEN <<x>>
    ELSE IF Less(area_of_overlap(Head(s)), area_of_overlap(x)) THEN <<x>> \o s
    ELSE <<Head(s)>> \o InsertDesc(Tail(s), x)

RECURSIVE InsertAsc(_, _)
\* x put into the ascending list s behind every element that is not greater.
InsertAsc(s, x) ==
    IF s = <<>> THEN <<x>>
    ELSE IF Less(area_of_overlap(x), area_of_overlap(Head(s))) THEN <<x>> \o s
    ELSE <<Head(s)>> \o InsertAsc(Tail(s), x)

RECURSIVE SortedAsc(_)
SortedAsc(s) ==
    IF s = <<>> THEN <<>>
    ELSE InsertAsc(SortedAsc(SubSeq(s, 1, Len(s) - 1)), s[Len(s)])

\* A slip: sorting ascending and reversing the list, which puts the latest
\* of several equal items first.
sorted_then_reversed(s) ==
    LET a == SortedAsc(s) IN [i \in 1..Len(a) |-> a[Len(a) + 1 - i]]

RECURSIVE sorted_reverse(_)
\* sorted(s, key=area_of_overlap, reverse=True): descending and stable, equal
\* items keep their input order.
sorted_reverse(s) ==
    IF s = <<>> THEN <<>>
    ELSE InsertDesc(sorted_reverse(SubSeq(s, 1, Len(s) - 1)), s[Len(s)])

\* Native units (pixels) per degree of the asset's CRS.
PixelsPerDegree == 2
target_w == 800

\* ds.crs is a projected grid (NAIP assets are in the UTM zone of their
\* quarter quad).  Over an area of a few pixels the projection is taken as
\* linear: a degree is PixelsPerDegree pixels, and away from the central
\* meridian grid north is turned off true north by the grid convergence,
\* here the number of half pixels the easting grows with a degree of
\* latitude (0: the grid is aligned with the meridians).
Convergences == {0, 1}

\* The point <<longitude, latitude>> in the asset's CRS, <<easting,
\* northing>>.  Native coordinates, and the offsets and lengths of windows,
\* are counted in half pixels, so that bounds which fall between two pixel
\* edges are kept as they are.
to_native(p) == <<2 * PixelsPerDegree * p[1] + convergence * p[2],
                  2 * PixelsPerDegree * p[2]>>

\* The corners of a box <<left, bottom, right, top>>.
Corners(b) == {<<b[1], b[2]>>, <<b[1], b[4]>>, <<b[3], b[2]>>, <<b[3], b[4]>>}

\* The smallest box that holds the points of S.
Envelope(S) ==
    <<CHOOSE x \in {p[1] : p \in S} : \A p \in S : x <= p[1],
      CHOOSE y \in {p[2] : p \in S} : \A p \in S : y <= p[2],
      CHOOSE x \in {p[1] : p \in S} : \A p \in S : x >= p[1],
      CHOOSE y \in {p[2] : p \in S} : \A p \in S : y >= p[2]>>

\* warp.transform_bounds('epsg:4326', ds.crs, *bounds): the bounds, in the
\* asset's CRS, of the box with its edges transformed.
transform_bounds(b) == Envelope({to_native(p) : p \in Corners(b)})

\* ds.bounds: the dataset's grid covers the bounds, in its own CRS, of the
\* item's footprint, with its edges on whole pixels.
ds_bounds(it) ==
    LET b == transform_bounds(it.geometry)
    IN  <<2 * (b[1] \div 2), 2 * (b[2] \div 2),
          2 * ((b[3] + 1) \div 2), 2 * ((b[4] + 1) \div 2)>>

\* windows.from_bounds(*bounds, transform=ds.transform): the window of the
\* bounds on the dataset's grid, with fractional offsets and lengths and not
\* limited to the dataset; the row offset counts down from the top edge.
from_bounds(b, ds) ==
    [col_off |-> b[1] - ds[1], row_off |-> ds[4] - b[4],
     width |-> Max(b[3] - b[1], 0), height |-> Max(b[4] - b[2], 0)]

\* Window.crop(height, width): ds.read without boundless limits the window
\* to the dataset before it reads.
crop(win, ds) ==
    LET W == ds[3] - ds[1]
        H == ds[4] - ds[2]
        row_start == Min(Max(win.row_off, 0), H)
        col_start == Min(Max(win.col_off, 0), W)
        row_stop == Max(0, Min(win.row_off + win.height, H))
        col_stop == Max(0, Min(win.col_off + win.width, W))
    IN  [col_off |-> col_start, row_off |-> row_start,
         width |-> col_stop - col_start, height |-> row_stop - row_start]

\* Window.round_lengths(): the lengths as whole pixels, floor(x + 0.5) (for
\* a length that ends on half a pixel the ceiling of earlier releases is the
\* same number).
round_lengths(win) ==
    [win EXCEPT !.width = 2 * ((@ + 1) \div 2),
                !.height = 2 * ((@ + 1) \div 2)]

\* ds.read(window=...): the shape <<w, h>>, in pixels, of the array read:
\* the lengths of the cropped window, rounded.
read_shape(win, ds) ==
    LET int_window == round_lengths(crop(win, ds))
    IN  <<int_window.width \div 2, int_window.height \div 2>>

\* The pixel of the dataset, along one axis, that fills element i (from 0)
\* of an array of n elements read for a window at offset off of length len
\* (half pixels) of a dataset of size pixels: the nearest-neighbour sampling
\* of GDALRasterIO for a window given in floating point,
\* floor(off + (i + 0.5) * len / n), kept on the dataset.
SourcePixel(i, n, off, len, size) ==
    Min(size - 1, (2 * n * off + (2 * i + 1) * len) \div (4 * n))

\* The part of the dataset that ds.read(window=...) returns, as the bounds
\* in the dataset's CRS of the pixels it samples (no pixel: an empty box).
read_bounds(win, ds) ==
    LET c == crop(win, ds)
        n == read_shape(win, ds)
        W == (ds[3] - ds[1]) \div 2
        H == (ds[4] - ds[2]) \div 2
    IN  IF n[1] = 0 \/ n[2] = 0
        THEN <<ds[1] + c.col_off, ds[4] - c.row_off,
               ds[1] + c.col_off, ds[4] - c.row_off>>
        ELSE <<ds[1] + 2 * SourcePixel(0, n[1], c.col_off, c.width, W),
               ds[4] - 2 * (SourcePixel(n[2] - 1, n[2], c.row_off, c.height, H) + 1),
               ds[1] + 2 * (SourcePixel(n[1] - 1, n[1], c.col_off, c.width, W) + 1),
               ds[4] - 2 * SourcePixel(0, n[2], c.row_off, c.height, H)>>

\* The shape of the array create_image reads for an item.
aoi_window(it) ==
    read_shape(from_bounds(transform_bounds(area_of_interest), ds_bounds(it)),
               ds_bounds(it))

\* The bounds, in the dataset's CRS, of the pixels create_image reads.
aoi_read_bounds(it) ==
    read_bounds(from_bounds(transform_bounds(area_of_interest), ds_bounds(it)),
                ds_bounds(it))

RECURSIVE Gcd(_, _)
Gcd(a, b) == IF b = 0 THEN a ELSE Gcd(b, a % b)

\* The aspect ratios w : h, in lowest terms with w <= 1000 and h <= 25, for
\* which the double target_w/(w/h) falls just below the integer 800*h/w:
\* w/h is rounded up to the next double, and the quotient comes out one
\* unit in the last place short (25/11 = 2.272727..., 800/that =
\* 351.99999999999994).
FloatFallsShort ==
    {<<25, 11>>, <<25, 22>>, <<50, 11>>, <<100, 11>>, <<200, 11>>,
     <<400, 11>>, <<800, 11>>}

\* target_h = (int)(target_w/aspect) with aspect = w/h, for w, h >= 1: the
\* double quotient, truncated.
target_h(w, h) ==
    LET g == Gcd(w, h)
        q == (target_w * h) \div w
    IN  IF <<w \div g, h \div g>> \in FloatFallsShort THEN q - 1 ELSE q

----------------------------------------------------------------------------
(* The Data API notebook (tilejson, mosaic registration) and its server     *)

Collections == {"sentinel-2-l2a", "landsat-c2-l2"}

\* Search identifiers the registration endpoint may hand out.
SearchIds == {"125b5f36", "9e3a77c0"}

DataApi == "planetarycomputer.microsoft.com/api/data/v1"

ItemTilejsonHref == <<DataApi, "item", "tilejson.json", "?", "collection", "item">>

InfoUrl(s) == <<DataApi, "mosaic", s, "info">>
TilejsonUrl(s) == <<DataApi, "mosaic", s, "tilejson.json">>

\* Answers to a call made with `requests`: a 2xx answer, no answer at all, or
\* a 5xx answer whose body is a JSON error document or not JSON.
HttpResponses ==
    {[status |-> "ok", json |-> TRUE], [status |-> "timeout", json |-> FALSE],
     [status |-> "5xx", json |-> TRUE], [status |-> "5xx", json |-> FALSE]}

ErrorBody == [detail |-> "Internal Server Error"]

\* The body of a successful registration: {searchid, links}, the two links in
\* either order.
Registrations ==
    {[searchid |-> s,
      links |-> IF swapped
                THEN <<[rel |-> "tilejson", href |-> TilejsonUrl(s)],
                       [rel |-> "metadata", href |-> InfoUrl(s)]>>
                ELSE <<[rel |-> "metadata", href |-> InfoUrl(s)],
                       [rel |-> "tilejson", href |-> TilejsonUrl(s)]>>] :
        s \in SearchIds, swapped \in BOOLEAN}

\* The default render options the server holds for a collection, as the
\* string of mosaic_info["renderOptions"][0]["options"]: the options, and
\* within the value of color_formula its words with the blanks between them.
RenderOptionsOf(c) ==
    IF c = "sentinel-2-l2a"
    THEN <<"assets=B04", "assets=B03", "assets=B02", "nodata=0",
           "color_formula=Gamma", " ", "RGB", " ", "3.2", " ", "Saturation",
           " ", "0.8", " ", "Sigmoidal", " ", "RGB", " ", "25", " ", "0.35">>
    ELSE <<"assets=red", "assets=green", "assets=blue",
           "color_formula=gamma", " ", "RGB", " ", "2.7">>

\* requests.utils.requote_uri: a blank of the url is sent as %20.
requote_uri(url) == [i \in 1..Len(url) |-> IF url[i] = " " THEN "%20" ELSE url[i]]

\* The server's reading of a query string: %20 and + stand for a blank.
unquote_plus(q) ==
    [i \in 1..Len(q) |-> IF q[i] \in {"%20", "+"} THEN " " ELSE q[i]]

\* The server's writing of a query string (urlencode): a blank becomes +.
urlencode(q) == [i \in 1..Len(q) |-> IF q[i] = " " THEN "+" ELSE q[i]]

\* The body the server returns for GET url: the tilejson document of a
\* registered search carries the template of its tiles, with the parameters
\* of the request encoded anew; any other document has no `tiles`.
TilejsonBody(url) ==
    LET path == BasePath(url)
        qs == urlencode(unquote_plus(Query(url)))
    IN
    IF Len(path) = 4 /\ path[2] = "mosaic" /\ path[4] = "tilejson.json"
    THEN [tiles |-> <<<<DataApi, "mosaic", "tiles", path[3], "WebMercatorQuad",
                        "{z}", "{x}", "{y}@1x", "?">> \o qs>>]
    ELSE IF Len(path) = 3 /\ path[2] = "item" /\ path[3] = "tilejson.json"
    THEN [tiles |-> <<<<DataApi, "item", "tiles", "WebMercatorQuad",
                        "{z}", "{x}", "{y}@1x", "?">> \o qs>>]
    ELSE [id |-> "mosaic info"]

\* A slip: the template is cut at its query string.
first_tile_without_query(body) == BasePath(body.tiles[1])

\* r["tiles"][0]: the first entry of the `tiles` array of a tilejson document.
first_tile(body) == body.tiles[1]

\* A slip: the tilejson URL of an earlier registration is pasted in.
recorded_tilejson_href(reg) == <<TilejsonUrl("125b5f36")>>

\* registered["links"][1]["href"]: <<href>>, or <<>> for a KeyError.
links_1_href(reg) ==
    IF "links" \in DOMAIN reg THEN <<reg.links[2].href>> ELSE <<>>

\* f"{tilejson_url}?collection={item.collection_id}&{render_options}"
tilejson_request(url, c, opts) == url \o <<"?", "collection", c, "&">> \o opts

\* requests.get(".../mosaic/info", params=dict(collection=c)): the url of
\* the request.
mosaic_info_request(c) == <<DataApi, "mosaic", "info", "?", "collection", c>>

\* The value of the query parameter k of url: the entry after k in its query.
Param(url, k) == LET q == Query(url) IN q[IndexOf(q, k, 1) + 1]

\* The url contains the string s.
Contains(url, s) == \E i \in 1..Len(url) : url[i] = s

----------------------------------------------------------------------------
(* The FIA notebook: the per-county sums                                    *)

\* Rows of the plot table (columns CN, STATECD, COUNTYCD) and of the tree
\* table; the measurements of a tree are taken such that the sums are whole
\* numbers.
PlotRow(cn, st, co) == [CN |-> cn, STATECD |-> st, COUNTYCD |-> co]
TreeRow(plt, cond) ==
    [PLT_CN |-> plt, CONDID |-> cond, DRYBIO_AG |-> 1000 * plt,
     CARBON_AG |-> 500 * plt, TPA_UNADJ |-> 4]

\* The plot tables the server may hold: CN is the key of the table.
PlotTables ==
    {<<PlotRow(1, 1, 1), PlotRow(2, 1, 1), PlotRow(3, 1, 3)>>,
     <<PlotRow(1, 1, 1), PlotRow(2, 10, 1), PlotRow(3, 1, 110)>>}

\* The tree tables the server may hold: trees of the plots 1..3 and of a
\* plot the plot table does not have, in condition 1 or 2.
TreeKinds == {TreeRow(plt, cond) : plt \in {1, 2, 3, 9}, cond \in {1, 2}}
TreeTables == UNION {[1..L -> TreeKinds] : L \in 0..MaxTrees}

\* A slip: the tree table is read without its filter.
read_tree_unfiltered(rows) == rows

\* dd.read_parquet(tree_item..., filters=[("CONDID", "==", 1)])
read_tree(rows) == SelectSeq(rows, LAMBDA r : r.CONDID = 1)

RECURSIVE Matches(_, _)
\* The rows of the merge for one tree row: one for every plot row whose
\* PLT_CN (= CN) is the tree's, with bio and carbon assigned.
Matches(t, plot_rows) ==
    IF plot_rows = <<>> THEN <<>>
    ELSE (IF Head(plot_rows).CN = t.PLT_CN
          THEN <<[STATECD |-> Head(plot_rows).STATECD,
                  COUNTYCD |-> Head(plot_rows).COUNTYCD,
                  bio |-> (t.DRYBIO_AG * t.TPA_UNADJ) \div 2000,
                  carbon |-> (t.CARBON_AG * t.TPA_UNADJ) \div 2000]>>
          ELSE <<>>) \o Matches(t, Tail(plot_rows))

RECURSIVE df(_, _)
\* df = tree.merge(plot.assign(PLT_CN=plot.CN).compute(), on="PLT_CN")
\*          .assign(bio=..., carbon=...)
df(tree_rows, plot_rows) ==
    IF tree_rows = <<>> THEN <<>>
    ELSE Matches(Head(tree_rows), plot_rows) \o df(Tail(tree_rows), plot_rows)

RECURSIVE SumOf(_, _, _)
\* The sum of the column col over the rows of the county k.
SumOf(rows, k, col) ==
    IF rows = <<>> THEN 0
    ELSE (IF <<Head(rows).STATECD, Head(rows).COUNTYCD>> = k
          THEN Head(rows)[col] ELSE 0) + SumOf(Tail(rows), k, col)

\* df.groupby(["STATECD", "COUNTYCD"])[["bio", "carbon"]].sum(): the totals
\* of every (STATECD, COUNTYCD) of the table.
groupby_sum(rows) ==
    [k \in {<<rows[i].STATECD, rows[i].COUNTYCD>> : i \in 1..Len(rows)} |->
        [bio |-> SumOf(rows, k, "bio"), carbon |-> SumOf(rows, k, "carbon")]]

RECURSIVE reset_index(_)
\* .reset_index(): the keys of the groups, in ascending order.
reset_index(keys) ==
    IF keys = {} THEN <<>>
    ELSE LET m == CHOOSE k \in keys :
                    \A j \in keys :
                        k[1] < j[1] \/ (k[1] = j[1] /\ k[2] <= j[2])
         IN  <<m>> \o reset_index(keys \ {m})

DigitChars == <<"0", "1", "2", "3", "4", "5", "6", "7", "8", "9">>

RECURSIVE astype_string(_)
\* .astype("string") of a non-negative integer: its decimal digits.
astype_string(n) ==
    IF n < 10 THEN <<DigitChars[n + 1]>>
    ELSE astype_string(n \div 10) \o <<DigitChars[(n % 10) + 1]>>

\* A slip: the string is left as it is.
str_unpadded(str, width, fillchar) == str

RECURSIVE str_pad(_, _, _)
\* .str.pad(width, fillchar=...): filled on the left up to the width.
str_pad(str, width, fillchar) ==
    IF Len(str) >= width THEN str
    ELSE str_pad(<<fillchar>> \o str, width, fillchar)

\* A row of the result, with the columns bio, carbon, STATE and COUNTY.
ResultRow(b, c, st, co) ==
    [col \in {"bio", "carbon", "STATE", "COUNTY"} |->
        CASE col = "bio" -> b
          [] col = "carbon" -> c
          [] col = "STATE" -> st
          [] col = "COUNTY" -> co]

\* result = df.groupby(...)[...].sum().compute().reset_index()
\*            .assign(STATE=..., COUNTY=...).drop(columns=[...])
county_summary(tree_rows, plot_rows) ==
    LET g == groupby_sum(df(read_tree(tree_rows), plot_rows))
        keys == reset_index(DOMAIN g)
    IN  [i \in 1..Len(keys) |->
            ResultRow(g[keys[i]].bio, g[keys[i]].carbon,
                      str_pad(astype_string(keys[i][1]), 2, "0"),
                      str_pad(astype_string(keys[i][2]), 3, "0"))]

\* The census table of the counties: the columns STATEFP and COUNTYFP,
\* renamed to STATE and COUNTY, and the geometry (here the bounds of the
\* county); one row for every county.
CountyRow(st, co, g) ==
    [col \in {"STATE", "COUNTY", "geometry"} |->
        CASE col = "STATE" -> st
          [] col = "COUNTY" -> co
          [] col = "geometry" -> g]
counties ==
    <<CountyRow(<<"0", "1">>, <<"0", "0", "1">>, <<-87, 32, -86, 33>>),
      CountyRow(<<"0", "1">>, <<"0", "0", "3">>, <<-88, 30, -87, 31>>),
      CountyRow(<<"1", "0">>, <<"0", "0", "1">>, <<-76, 38, -75, 39>>),
      CountyRow(<<"0", "2">>, <<"0", "0", "5">>, <<-160, 60, -150, 65>>)>>

\* A row of the merge: the columns of the result's row and, next to them,
\* the other columns of the county's row.
MergedRow(row, c) ==
    [col \in DOMAIN row \cup DOMAIN c |->
        IF col \in DOMAIN row THEN row[col] ELSE c[col]]

RECURSIVE pd_merge(_, _)
\* pd.merge(result, counties, on=["STATE", "COUNTY"]): an inner join; for
\* every row of the result, in order, one row for every county with its
\* STATE and COUNTY.
pd_merge(rows, county_rows) ==
    IF rows = <<>> THEN <<>>
    ELSE LET same == SelectSeq(county_rows,
                        LAMBDA c : c["STATE"] = Head(rows)["STATE"]
                                   /\ c["COUNTY"] = Head(rows)["COUNTY"])
         IN  [i \in 1..Len(same) |-> MergedRow(Head(rows), same[i])]
                \o pd_merge(Tail(rows), county_rows)

----------------------------------------------------------------------------
(* The climate-normals notebook: the stations on the map                    *)

\* Positions of stations, <<longitude, latitude>> in tenths of a degree: in
\* the contiguous states, on Puerto Rico, on Hawaii, in Alaska, on Guam, and
\* one south of the contiguous states.
StationPoints ==
    {<<-1000, 400>>, <<-660, 180>>, <<-1550, 200>>, <<-1500, 610>>,
     <<1450, 130>>, <<-1000, 200>>}

\* The tables the server may hold: one row for each station.
StationTables == UNION {[1..L -> StationPoints] : L \in 0..MaxStations}

\* df.cx[a:b, c:d]: the rows whose point has its x in [a, b] and its y in
\* [c, d] (the first slice selects by x, the second by y).
cx(rows, a, b, c, d) ==
    SelectSeq(rows, LAMBDA p : a <= p[1] /\ p[1] <= b /\ c <= p[2] /\ p[2] <= d)

----------------------------------------------------------------------------
(* The MLHub notebook: MLHubSession                                         *)

\* Keys the user may type at the getpass prompt (getpass returns a string).
ApiKeys == {"", "k1"}

\* MLHUB_ROOT_URL = "https://api.radiant.earth/mlhub/v1"
MLHUB_ROOT_URL == [host |-> "api.radiant.earth", path |-> <<"mlhub", "v1">>]

\* A url argument: its host ("" when it has none), whether its path starts
\* with "/", the segments of its path and its query parameters.
Url(h, r, p, q) == [host |-> h, rooted |-> r, path |-> p, query |-> q]

\* session.get("/datasets") and session.get("/archive/<collection>")
DatasetsUrl == Url("", TRUE, <<"datasets">>, <<>>)
ArchiveUrl ==
    Url("", TRUE, <<"archive", "ref_african_crops_kenya_01_labels">>, <<>>)

\* urljoin(url_prefix, url) with url_prefix = MLHUB_ROOT_URL.rstrip("/") + "/":
\* a url with a host stands for itself, a path that starts with "/" replaces
\* the path of the prefix, any other path is appended to it.
urljoin(base, u) ==
    IF u.host /= "" THEN [host |-> u.host, path |-> u.path, query |-> u.query]
    ELSE IF u.rooted THEN [host |-> base.host, path |-> u.path, query |-> u.query]
    ELSE [host |-> base.host, path |-> base.path \o u.path, query |-> u.query]

\* MLHubSession.__init__: self.params.update({"key": api_key})
MLHubSession_init(key) == <<<<"key", key>>>>

\* MLHubSession.request(method, url): the url is joined to the prefix and
\* requests.Session.request appends the session's params to its query.
MLHubSession_request(params, method, url) ==
    LET j == urljoin(MLHUB_ROOT_URL, url)
    IN  [method |-> method, host |-> j.host, path |-> j.path,
         query |-> j.query \o params]

\* The Locations a redirect of the MLHub API may name: the archive in a blob
\* store, with the token of its signed url, or another url of the API.
Locations ==
    {Url("radiantmlhub.blob.core.windows.net", TRUE,
         <<"archives", "ref_african_crops_kenya_01_labels.tar.gz">>,
         <<<<"sig", "token">>>>),
     Url("api.radiant.earth", TRUE, <<"mlhub", "v1", "download">>, <<>>)}

\* The chains of redirects that may answer one request.
Redirects == UNION {[1..k -> Locations] : k \in 0..MaxRedirects}

\* requests.Session.resolve_redirects: the next request is a GET of the
\* Location, prepared from the previous request and sent with
\* Session.send: the params of the session are not merged into it again.
resolve_redirects(location) ==
    [method |-> "GET", host |-> location.host, path |-> location.path,
     query |-> location.query]

\* The lists of dataset ids the /datasets endpoint may answer with.
DatasetLists ==
    {<<>>, <<"ref_african_crops_kenya_02">>,
     <<"ref_african_crops_kenya_01", "ref_african_crops_kenya_02">>,
     <<"ref_african_crops_kenya_01">>}

\* it.islice(collections, 20)
collection_limit == 20

\* A list of n collection ids with the Kenya labels collection at position
\* p (nowhere for p = 0).
CollectionList(n, p) ==
    [i \in 1..n |-> IF i = p THEN "ref_african_crops_kenya_01_labels"
                    ELSE "other"]

\* The lists of collections the collections endpoint may hold.
CollectionLists ==
    {CollectionList(n, p) :
        n \in {0, 1, collection_limit, collection_limit + 2},
        p \in {0, 1, collection_limit, collection_limit + 1}}

\* What a generator over s has yet to yield after islice took n of it.
islice_rest(s, n) == SubSeq(s, Min(n, Len(s)) + 1, Len(s))

----------------------------------------------------------------------------
(* Inputs of a run                                                          *)

\* Values of area_of_interest: boxes of the size of an image tile, and long
\* boxes that only a strip of imagery covers.
TileAOIs == {<<1, 0, 3, 2>>, <<3, 0, 5, 2>>}
StripAOIs == {<<0, 0, 25, 11>>, <<0, 0, 900, 1>>}
AOIs == TileAOIs \cup StripAOIs

\* The footprint of a long strip of imagery.
StripGeometry == <<0, 0, 900, 22>>

SignedHref == BlobHref \o <<"?">> \o SASToken
TableHref == <<"abfs", "cpdata", "fia", "plot.parquet">>

\* The kinds of item the catalog of a notebook holds: <<geometry, datetime,
\* href, storage_options, collection>>.
Kinds(n) ==
    CASE n = "browse" ->
            ({<<0, 0, 2, 2>>} \X {t \in Timestamps : DateOf(t) = search_datetime}
                    \X {BlobHref} \X {<<>>} \X {"sentinel-2-l2a"})
                \cup ({<<1, 0, 3, 2>>} \X {11} \X {BlobHref} \X {<<>>}
                        \X {"sentinel-2-l2a"})
      [] n = "naip"   -> Geometries \X range_old \X {BlobHref} \X {<<>>}
                             \X {"naip"}
      [] n = "nicfi"  -> {<<0, 0, 2, 2>>} \X Datetimes \X {BlobHref, SignedHref}
                             \X {<<>>} \X {"planet-nicfi-visual"}
      [] n = "fia"    -> {<<0, 0, 2, 2>>} \X {1} \X {TableHref, BlobHref}
                             \X {<<>>, <<"cpdataeuwest">>} \X {"fia"}
      [] n = "normals" -> {<<0, 0, 2, 2>>} \X {1} \X {TableHref}
                             \X {<<"noaanormals">>}
                             \X {"noaa-climate-normals-tabular"}

\* Lists of up to MaxMatched items of the kinds of a notebook (the FIA cells
\* get two items by id, the plot item and the tree item).
ItemLists(n) ==
    UNION {{[i \in 1..L |-> Item(i, f[i][1], f[i][2], f[i][3], f[i][4],
                                  f[i][5])] :
                f \in [1..L -> Kinds(n)]} :
           L \in (IF n = "fia" THEN 2..2 ELSE 0..MaxMatched)}

\* The items of the new range that follow the items old of the old range in
\* the NAIP collection: none or one.
NewRangeItems(old) ==
    {<<>>} \cup {<<Item(Len(old) + 1, <<1, 0, 3, 2>>, d, BlobHref, <<>>,
                         "naip")>> :
                    d \in range_new}

\* An item of planet-nicfi-analytic.
AnalyticItem(i, h) ==
    Item(i, <<0, 0, 2, 2>>, 1, h, <<>>, "planet-nicfi-analytic")

\* The items of planet-nicfi-analytic that follow the items visual of
\* planet-nicfi-visual in the holdings of the NICFI cells: none, one or two.
AnalyticItems(visual) ==
    LET n == Len(visual) IN
    {<<>>, <<AnalyticItem(n + 1, BlobHref), AnalyticItem(n + 2, SignedHref)>>}
        \cup {<<AnalyticItem(n + 1, h)>> : h \in {BlobHref, SignedHref}}

\* The items the server may hold in the collections a notebook searches.
\* The collection of the browse notebook holds items of the date asked for
\* and, where it has room for one more, an item without geometry
\* ("geometry": null), an item without datetime of that date, or an item of
\* another date.  The NAIP collection holds items of the old range and of
\* the new range, or a long strip and an item of the new range; the NICFI
\* cells search two collections.
Holdings(n) ==
    CASE n = "browse" ->
            LET another(g, t) ==
                    {h \o <<Item(Len(h) + 1, g, t, BlobHref, <<>>,
                                 "sentinel-2-l2a")>> :
                        h \in {l \in ItemLists(n) : Len(l) < MaxMatched}}
            IN  ItemLists(n)
                    \cup another(<<>>, 11)
                    \cup another(<<0, 0, 2, 2>>, NoDatetime)
                    \cup UNION {another(<<0, 0, 2, 2>>, t) :
                                t \in {u \in Timestamps :
                                            DateOf(u) /= search_datetime}}
      [] n = "naip" ->
            UNION {{old \o new : new \in NewRangeItems(old)} :
                    old \in ItemLists(n)
                        \cup {<<Item(1, StripGeometry, 1, BlobHref, <<>>,
                                     "naip")>>}}
      [] n = "nicfi" ->
            UNION {{visual \o analytic : analytic \in AnalyticItems(visual)} :
                    visual \in ItemLists(n)}
      [] OTHER -> ItemLists(n)

\* What the server holds for a notebook: the items its searches select from,
\* the item the Data API notebook loads; the answers to the MLHub cells are
\* chosen where the cells run.
ServerData(n) ==
    CASE n \in Stac -> Holdings(n)
      [] n = "data_api" ->
            {<<[id |-> 1, collection_id |-> c,
                assets |-> [href |-> ItemTilejsonHref]]>> : c \in Collections}
      [] n = "mlhub" -> {<<>>}

\* The first cell of each notebook.
StartPc(n) ==
    CASE n = "data_api" -> "get_item"
      [] n = "fia" -> "cluster"
      [] OTHER -> "open"

Init ==
    /\ nb \in Notebooks
    /\ pc = StartPc(nb)
    /\ err = "none"
    /\ matched \in ServerData(nb)
    /\ max_items \in (IF nb = "browse" THEN 1..MaxCap ELSE {0})
    /\ query \in (IF nb \in {"browse", "naip"} THEN Queries ELSE {"ok"})
    /\ query /= "ok" => matched = <<>>
    /\ gen = NewGen
    /\ items = <<>>
    /\ nreq = 0
    /\ last = "none"
    /\ area_of_interest \in
            (IF nb /= "naip" THEN {<<0, 0, 1, 1>>}
             ELSE IF \E i \in 1..Len(matched) : matched[i].geometry = StripGeometry
             THEN AOIs ELSE TileAOIs)
    /\ subscription_key \in (IF nb = "naip" THEN BOOLEAN ELSE {FALSE})
    /\ convergence \in (IF nb = "naip" THEN Convergences ELSE {0})
    /\ attempts = 0
    /\ item = <<>>
    /\ opened = <<>>
    /\ img = <<>>
    /\ collection \in (IF nb = "data_api" THEN Collections ELSE {"none"})
    /\ registered = <<>>
    /\ tilejson_url = <<>>
    /\ render_options = <<>>
    /\ tiles = <<>>
    /\ layer_url = <<>>
    /\ got = <<>>
    /\ r_json = <<>>
    /\ gateway \in (IF nb = "fia" THEN BOOLEAN ELSE {FALSE})
    /\ cluster = FALSE
    /\ plot = <<>>
    /\ tree = <<>>
    /\ result = <<>>
    /\ gdf = <<>>
    /\ api_key \in (IF nb = "mlhub" THEN ApiKeys ELSE {"none"})
    /\ session_params = <<>>
    /\ sent = <<>>
    /\ selected = 0
    /\ center = <<>>
    /\ layer_data = <<>>
    /\ stations \in (IF nb = "normals" THEN StationTables ELSE {<<>>})
    /\ normals_df = <<>>
    /\ shown = <<>>
    /\ archive = <<>>
    /\ tmp_dir = <<>>
    /\ dirs = {}
    /\ datasets = <<>>
    /\ collections = <<>>

\* What a run does not change: the notebook, the server's data and the
\* literals of the cells.
Inputs == <<nb, matched, max_items, query, area_of_interest, collection,
            subscription_key, convergence, gateway, api_key, stations>>

\* The variables of the mosaic cells and of the archive cells.
mosaicVars == <<registered, tilejson_url, render_options, tiles, layer_url, got,
               r_json>>
hubVars == <<archive, tmp_dir, dirs, datasets, collections>>

\* The variables of create_image's sign step.
signVars == <<attempts>>

\* The variables of the FIA notebook's computation.
fiaVars == <<cluster, plot, tree, result, gdf>>

\* The variables of the MLHubSession.
sessVars == <<session_params, sent>>

\* The table and the map of the climate-normals notebook.
normalsVars == <<normals_df, shown>>

\* The state of the browse notebook's map widget.
mapVars == <<selected, center, layer_data>>

----------------------------------------------------------------------------
(* Cells                                                                    *)

\* The cell after Client.open.
AfterOpen(n) ==
    CASE n \in {"fia", "normals"} -> "get_collection"
      [] n = "mlhub" -> "session"
      [] OTHER -> "search"

\* pystac_client.Client.open(url[, modifier=...]): reads the root catalog.
ClientOpen ==
    /\ pc = "open"
    /\ \E r \in {"ok"} \cup Transient :
        /\ Requested(r)
        /\ IF r = "ok"
           THEN pc' = AfterOpen(nb) /\ err' = err
           ELSE Raise("APIError")
    /\ UNCHANGED <<normalsVars, mapVars, signVars, fiaVars, sessVars, Inputs, mosaicVars, hubVars, gen, items, item, opened, img>>

\* The cell that follows a search, by notebook and search.
Consumer(n, p) ==
    CASE n = "browse" -> "collect"
      [] n = "naip"   -> "matched"
      [] n = "nicfi"  -> IF p = "search" THEN "collect" ELSE "next"

\* catalog.search(...): builds the ItemSearch (the NAIP cell builds two,
\* search_old and search_new); nothing is requested yet.
CatalogSearch ==
    /\ pc \in {"search", "search2"}
    /\ gen' = NewGen
    /\ pc' = Consumer(nb, pc)
    /\ NoRequest
    /\ UNCHANGED <<normalsVars, mapVars, signVars, fiaVars, sessVars, Inputs, mosaicVars, hubVars, err, items, item, opened, img>>

\* items = search.item_collection(): every item of the generator, in order.
\* items = list(collection.get_all_items()): the same, over the generator of
\* the collection's items.
ItemCollection ==
    /\ pc = "collect"
    /\ \E r \in Responses :
        LET s == GenStep(gen, max_items, r) IN
        /\ gen' = s.gen
        /\ IF s.req THEN Requested(r.kind) ELSE NoRequest
        /\ CASE s.out = "yield" ->
                    items' = items \o s.item /\ UNCHANGED <<pc, err>>
             [] s.out = "stop" ->
                    /\ items' = items
                    /\ pc' = (CASE nb = "nicfi" -> "load"
                                [] nb = "normals" -> "assets"
                                [] OTHER -> "interact")
                    /\ err' = err
             [] s.out = "raise" ->
                    items' = items /\ Raise("APIError")
    /\ UNCHANGED <<normalsVars, mapVars, signVars, fiaVars, sessVars, Inputs, mosaicVars, hubVars, item, opened, img>>

\* The cell of the map: m = ipyleaflet.Map(zoom=3), layer = ipyleaflet.GeoJSON(),
\* @ipywidgets.interact(item=items). interact builds a dropdown of the items,
\* whose value is the first item, and calls browse with that value; without
\* items the value is None, the call raises inside interact, which shows the
\* traceback and goes on, and the map keeps its defaults.
Interact ==
    /\ pc = "interact"
    /\ pc' = "done"
    /\ IF items = <<>>
       THEN UNCHANGED mapVars
       ELSE /\ selected' = 1
            /\ center' = Callback(items[1], center, layer_data).center
            /\ layer_data' = Callback(items[1], center, layer_data).data
    /\ UNCHANGED <<normalsVars, signVars, fiaVars, sessVars, Inputs, mosaicVars, hubVars, gen,
                   items, item, opened, img, err, nreq, last>>

\* The user picks another entry of the dropdown: the widget's value changes
\* and interact calls browse(item) with the new value.
Select ==
    /\ nb = "browse" /\ pc = "done"
    /\ \E i \in 1..Len(items) :
        /\ i /= selected
        /\ selected' = i
        /\ center' = Callback(items[i], center, layer_data).center
        /\ layer_data' = Callback(items[i], center, layer_data).data
    /\ UNCHANGED <<normalsVars, signVars, fiaVars, sessVars, Inputs, mosaicVars, hubVars, gen,
                   items, item, opened, img, pc, err, nreq, last>>

\* The front end of the map widget writes m.center too: it sends the centre
\* of its view back to the kernel when the view has been laid out on its
\* pixels and whenever the user pans or zooms the map.
MapViewChanged ==
    /\ nb = "browse" /\ pc = "done"
    /\ \E c \in Views : c /= center /\ center' = c
    /\ UNCHANGED <<normalsVars, signVars, fiaVars, sessVars, Inputs, mosaicVars, hubVars, gen,
                   items, item, opened, img, pc, err, nreq, last, selected,
                   layer_data>>

\* print(f"{search_old.matched()} Items found in the 'old' range")
\* print(f"{search_new.matched()} Items found in the 'new' range")
\* Each matched() asks the server for one page of its search and returns the
\* count of that answer, or None (with a warning) when the answer has none;
\* a failed request ends the cell.
Matched ==
    /\ pc = "matched"
    /\ \E k \in 1..2, r \in Statuses :
        /\ (r = "ok") => (k = 2)
        /\ nreq' = nreq + k /\ last' = r
        /\ IF r = "ok"
           THEN pc' = "sort_old" /\ err' = err
           ELSE Raise("APIError")
    /\ UNCHANGED <<normalsVars, mapVars, signVars, fiaVars, sessVars, Inputs, mosaicVars, hubVars, gen, items, item, opened, img>>

\* item_old = sorted(search_old.items(), key=area_of_overlap, reverse=True)[0]
\* item_new = sorted(search_new.items(), key=area_of_overlap, reverse=True)[0]
\* Each statement runs a generator of its own search to its end, sorts what
\* it yielded and takes the first; [0] of an empty list raises IndexError.
\* `items` is the list sorted() is collecting.
BestOverlap ==
    /\ pc \in {"sort_old", "sort_new"}
    /\ \E r \in Responses :
        LET s == GenStep(gen, max_items, r) IN
        /\ IF s.req THEN Requested(r.kind) ELSE NoRequest
        /\ CASE s.out = "yield" ->
                    /\ gen' = s.gen
                    /\ items' = items \o s.item
                    /\ UNCHANGED <<pc, err, item>>
             [] s.out = "stop" ->
                    IF items = <<>>
                    THEN /\ Raise("IndexError")
                         /\ gen' = s.gen
                         /\ UNCHANGED <<item, items>>
                    ELSE /\ item' = Append(item, sorted_reverse(items)[1])
                         /\ items' = <<>>
                         /\ gen' = NewGen
                         /\ pc' = (IF pc = "sort_old" THEN "sort_new" ELSE "sign")
                         /\ err' = err
             [] s.out = "raise" ->
                    /\ gen' = s.gen
                    /\ UNCHANGED <<item, items>>
                    /\ Raise("APIError")
    /\ UNCHANGED <<normalsVars, mapVars, signVars, fiaVars, sessVars, Inputs, mosaicVars, hubVars, opened, img>>

\* The argument of the call of create_image that is next: item_old for the
\* first call, item_new for the second.
create_image_item == item[Len(img) + 1]

\* The answers of the token endpoint to pc.sign: a token, a transient
\* failure, or, for a caller without a subscription key, a rate-limit answer.
TokenStatuses ==
    {"ok"} \cup Transient \cup (IF subscription_key THEN {} ELSE {"429"})

\* create_image(item_old), create_image(item_new): the first statement of
\* create_image(item), href = pc.sign(item.assets['image'].href).
\* An unsigned blob-storage href needs a SAS token, which is requested from
\* the token endpoint; a failed token request is retried, and raises when
\* the retries are used up.
pc_sign ==
    /\ pc = "sign"
    /\ IF sign(create_image_item.assets.href) = create_image_item.assets.href
       THEN pc' = "create_image" /\ NoRequest /\ UNCHANGED <<err, attempts>>
       ELSE \E r \in TokenStatuses :
              /\ Requested(r)
              /\ IF r = "ok"
                 THEN pc' = "create_image" /\ UNCHANGED <<err, attempts>>
                 ELSE IF attempts < MaxRetry
                 THEN attempts' = attempts + 1 /\ UNCHANGED <<pc, err>>
                 ELSE /\ Raise(IF r = "timeout" THEN "ConnectionError"
                                               ELSE "RetryError")
                      /\ attempts' = attempts
    /\ UNCHANGED <<normalsVars, mapVars, fiaVars, sessVars, Inputs, mosaicVars, hubVars, gen, items,
                   item, opened, img>>

\* create_image(item), after the sign step: open the asset at the signed
\* href, read the AOI window, build the image and resize it to target_w;
\* img.resize raises ValueError for a target height of 0. The cell of
\* item_new follows the cell of item_old.
\* Two remote reads: rasterio.open reads the header of the asset, ds.read
\* the pixels of the window.  k is the number of reads made; the one that
\* fails is the last.  The asset has been opened as soon as the first read
\* has succeeded.
create_image ==
    /\ pc = "create_image"
    /\ LET it == create_image_item
           href == sign(it.assets.href)
           size == aoi_window(it)
           w == size[1]
           h == size[2]
       IN
       \E k \in 1..2, r \in {"ok"} \cup Transient :
        /\ (r = "ok") => (k = 2)
        /\ nreq' = nreq + k /\ last' = r
        /\ opened' = IF r = "ok" \/ k = 2 THEN Append(opened, href) ELSE opened
        /\ IF r /= "ok"
           THEN Raise("RasterioIOError") /\ UNCHANGED <<img, attempts>>
           ELSE /\ IF h = 0 \/ w = 0
                   THEN Raise("ZeroDivisionError") /\ UNCHANGED <<img, attempts>>
                   ELSE IF target_h(w, h) = 0
                   THEN Raise("ValueError") /\ UNCHANGED <<img, attempts>>
                   ELSE /\ img' = Append(img, <<target_w, target_h(w, h)>>)
                        /\ attempts' = 0
                        /\ pc' = (IF Len(img') = Len(item) THEN "done"
                                                           ELSE "sign")
                        /\ err' = err
    /\ UNCHANGED <<normalsVars, mapVars, fiaVars, sessVars, Inputs, mosaicVars, hubVars, gen, items, item>>

\* a = rioxarray.open_rasterio(items[0].assets["data"].href)
\* b = rioxarray.open_rasterio(items[-1].assets["data"].href)
\* a.plot.imshow(ax=axes[0], rgb="band"); b.plot.imshow(ax=axes[1], rgb="band")
\* open_rasterio opens the remote file and reads its header; the pixels are
\* read when imshow first accesses them. Each of the four remote reads may
\* fail and end the cell: k is the number of reads made, r the outcome of
\* the last of them.
LoadOldestNewest ==
    /\ pc = "load"
    /\ IF items = <<>>
       THEN Raise("IndexError") /\ NoRequest /\ opened' = opened
       ELSE \E k \in 1..4, r \in {"ok"} \cup Transient :
              /\ (r = "ok") => (k = 4)
              /\ nreq' = nreq + k /\ last' = r
              /\ opened' = opened \o
                    SubSeq(<<items[1].assets.href,
                             items[Len(items)].assets.href>>,
                           1, Min(2, IF r = "ok" THEN k ELSE k - 1))
              /\ IF r = "ok"
                 THEN pc' = "search2" /\ err' = err
                 ELSE Raise("RasterioIOError")
    /\ UNCHANGED <<normalsVars, mapVars, signVars, fiaVars, sessVars, Inputs, mosaicVars, hubVars, gen, items, item, img>>

\* item = next(search.items()), the first statement of the cell.
NextItem ==
    /\ pc = "next"
    /\ \E r \in Responses :
        LET s == GenStep(gen, max_items, r) IN
        /\ gen' = s.gen
        /\ IF s.req THEN Requested(r.kind) ELSE NoRequest
        /\ CASE s.out = "yield" ->
                    item' = s.item /\ pc' = "mesh" /\ err' = err
             [] s.out = "stop" ->
                    item' = item /\ Raise("StopIteration")
             [] s.out = "raise" ->
                    item' = item /\ Raise("APIError")
    /\ UNCHANGED <<normalsVars, mapVars, signVars, fiaVars, sessVars, Inputs, mosaicVars, hubVars, items, opened, img>>

\* mesh = rioxarray.open_rasterio(item.assets["data"].href).sel(band=4)
\*            .plot(cmap="Reds", size=8)
\* Two remote reads: open_rasterio opens the asset of the item (its header),
\* and the pixels of the fourth band are read only when .plot() asks for
\* them.  k is the number of reads made; the one that fails is the last.
\* The asset has been opened as soon as the first read has succeeded.
OpenMesh ==
    /\ pc = "mesh"
    /\ \E k \in 1..2, r \in {"ok"} \cup Transient :
        /\ (r = "ok") => (k = 2)
        /\ nreq' = nreq + k /\ last' = r
        /\ opened' = IF r = "ok" \/ k = 2
                      THEN Append(opened, item[1].assets.href)
                      ELSE opened
        /\ IF r = "ok"
           THEN pc' = "done" /\ err' = err
           ELSE Raise("RasterioIOError")
    /\ UNCHANGED <<normalsVars, mapVars, signVars, fiaVars, sessVars, Inputs, mosaicVars, hubVars, gen, items, item, img>>

\* cluster = dask_gateway.GatewayCluster(); cluster.scale(16)
\* client = cluster.get_client()
\* Without a gateway to connect to, GatewayCluster() raises.
GatewayCluster ==
    /\ pc = "cluster"
    /\ IF gateway
       THEN cluster' = TRUE /\ pc' = "open" /\ err' = err
       ELSE cluster' = cluster /\ Raise("ValueError")
    /\ NoRequest
    /\ UNCHANGED <<normalsVars, mapVars, signVars, plot, tree, result, gdf, sessVars, Inputs,
                   mosaicVars, hubVars, gen, items, item, opened, img>>

\* df = tree.merge(plot.assign(PLT_CN=plot.CN).compute(), on="PLT_CN")...:
\* the plot table is read into memory, the merge with the tree table is
\* only planned.
Merge ==
    /\ pc = "merge"
    /\ \E r \in {"ok"} \cup Transient :
        /\ Requested(r)
        /\ IF r = "ok"
           THEN \E rows \in PlotTables :
                    plot' = <<rows>> /\ pc' = "compute" /\ err' = err
           ELSE Raise("OSError") /\ plot' = plot
    /\ UNCHANGED <<normalsVars, mapVars, signVars, cluster, tree, result, gdf, sessVars, Inputs,
                   mosaicVars, hubVars, gen, items, item, opened, img>>

\* result = df.groupby(["STATECD", "COUNTYCD"])[["bio", "carbon"]].sum()
\*            .compute()...: the tree table is read by the computation. With
\* a client the graph is submitted to the cluster and the cell waits for
\* the result; without one it is computed by the local scheduler. A failed
\* read of the tree table raises out of compute() and result stays
\* unassigned.
Compute ==
    /\ pc = "compute"
    /\ IF cluster
       THEN /\ pc' = "waiting"
            /\ NoRequest
            /\ UNCHANGED <<tree, result, err>>
       ELSE \E r \in {"ok"} \cup Transient :
            /\ Requested(r)
            /\ IF r = "ok"
               THEN \E rows \in TreeTables :
                        /\ tree' = <<rows>>
                        /\ result' = <<county_summary(rows, plot[1])>>
                        /\ pc' = "counties" /\ err' = err
               ELSE Raise("OSError") /\ UNCHANGED <<tree, result>>
    /\ UNCHANGED <<normalsVars, mapVars, signVars, cluster, plot, gdf, sessVars, Inputs,
                   mosaicVars, hubVars, gen, items, item, opened, img>>

\* The cluster returns the result of the submitted graph, or the error of
\* its workers' read of the tree table; compute() returns or raises.
Gather ==
    /\ pc = "waiting"
    /\ \E r \in {"ok"} \cup Transient :
        /\ Requested(r)
        /\ IF r = "ok"
           THEN \E rows \in TreeTables :
                    /\ tree' = <<rows>>
                    /\ result' = <<county_summary(rows, plot[1])>>
                    /\ pc' = "counties" /\ err' = err
           ELSE Raise("OSError") /\ UNCHANGED <<tree, result>>
    /\ UNCHANGED <<normalsVars, mapVars, signVars, cluster, plot, gdf, sessVars, Inputs,
                   mosaicVars, hubVars, gen, items, item, opened, img>>

\* census_item = catalog.get_collection("us-census").get_item(...)
\* counties = dask_geopandas.read_parquet(census_item...).rename(...).compute()
\* Three remote reads: the collection, the item, the table.
ReadCounties ==
    /\ pc = "counties"
    /\ \E k \in 1..3, r \in {"ok"} \cup Transient :
        /\ (r = "ok") => (k = 3)
        /\ nreq' = nreq + k /\ last' = r
        /\ IF r = "ok"
           THEN pc' = "join" /\ err' = err
           ELSE Raise(IF k = 3 THEN "OSError" ELSE "APIError")
    /\ UNCHANGED <<normalsVars, mapVars, signVars, fiaVars, sessVars, Inputs, mosaicVars, hubVars, gen, items, item, opened, img>>

\* gdf = geopandas.GeoDataFrame(pd.merge(result, counties, on=["STATE", "COUNTY"]))
JoinCounties ==
    /\ pc = "join"
    /\ gdf' = <<pd_merge(result[1], counties)>>
    /\ pc' = "done"
    /\ NoRequest
    /\ UNCHANGED <<normalsVars, mapVars, signVars, cluster, plot, tree, result, sessVars, Inputs,
                   mosaicVars, hubVars, gen, items, item, opened, img, err>>

\* fia = catalog.get_collection("fia")
\* collection = catalog.get_collection("noaa-climate-normals-tabular")
GetCollection ==
    /\ pc = "get_collection"
    /\ \E r \in {"ok"} \cup Transient :
        /\ Requested(r)
        /\ IF r = "ok"
           THEN /\ pc' = (IF nb = "fia" THEN "get_collection_item"
                                         ELSE "collect")
                /\ err' = err
           ELSE Raise("APIError")
    /\ UNCHANGED <<normalsVars, mapVars, signVars, fiaVars, sessVars, Inputs, mosaicVars, hubVars, gen, items, item, opened, img>>

\* plot_item = fia.get_item("plot"); tree_item = fia.get_item("tree"): the
\* client reads each item and applies its modifier to it. A failed read
\* ends the cell with the items read before it assigned.
GetItem ==
    /\ pc = "get_collection_item"
    /\ \E k \in 1..2, r \in {"ok"} \cup Transient :
        /\ (r = "ok") => (k = 2)
        /\ nreq' = nreq + k /\ last' = r
        /\ item' = [i \in 1..(IF r = "ok" THEN k ELSE k - 1) |->
                        modifier(nb, matched[i])]
        /\ IF r = "ok"
           THEN pc' = "read_parquet" /\ err' = err
           ELSE Raise("APIError")
    /\ UNCHANGED <<normalsVars, mapVars, signVars, fiaVars, sessVars, Inputs, mosaicVars, hubVars, gen, items, opened, img>>

\* plot = dd.read_parquet(plot_item.assets["data"].href, ...)
\* tree = dd.read_parquet(tree_item.assets["data"].href, ...,
\*                        filters=[("CONDID", "==", 1)])
\* Each call opens its table to read the schema; the rows are read later.
ReadParquet ==
    /\ pc = "read_parquet"
    /\ \E k \in 1..2, r \in {"ok"} \cup Transient :
        /\ (r = "ok") => (k = 2)
        /\ nreq' = nreq + k /\ last' = r
        /\ opened' = [i \in 1..(IF r = "ok" THEN k ELSE k - 1) |->
                        item[i].assets.href]
        /\ IF r = "ok"
           THEN pc' = "merge" /\ err' = err
           ELSE Raise("OSError")
    /\ UNCHANGED <<normalsVars, mapVars, signVars, fiaVars, sessVars, Inputs, mosaicVars, hubVars, gen, items, item, img>>

\* r = requests.get(<item url>); item = pystac.Item.from_dict(r.json())
GetDataApiItem ==
    /\ pc = "get_item"
    /\ \E r \in HttpResponses :
        /\ Requested(r.status)
        /\ CASE r.status = "ok" ->
                    item' = <<matched[1]>> /\ pc' = "item_tilejson" /\ err' = err
             [] r.status = "timeout" ->
                    item' = item /\ Raise("ConnectionError")
             [] r.status = "5xx" ->
                    /\ item' = item
                    /\ Raise(IF r.json THEN "KeyError" ELSE "JSONDecodeError")
    /\ UNCHANGED <<normalsVars, mapVars, signVars, fiaVars, sessVars, Inputs, mosaicVars, hubVars, gen, items, opened, img>>

\* r = requests.get(item.assets["tilejson"].href).json(): the decoded body,
\* of an error answer too.
ItemTilejson ==
    /\ pc = "item_tilejson"
    /\ \E r \in HttpResponses :
        /\ Requested(r.status)
        /\ CASE r.status = "ok" ->
                    /\ r_json' = <<TilejsonBody(requote_uri(item[1].assets.href))>>
                    /\ pc' = "item_tiles"
                    /\ err' = err
             [] r.status = "timeout" ->
                    r_json' = r_json /\ Raise("ConnectionError")
             [] r.status = "5xx" /\ r.json ->
                    r_json' = <<ErrorBody>> /\ pc' = "item_tiles" /\ err' = err
             [] r.status = "5xx" /\ ~r.json ->
                    r_json' = r_json /\ Raise("JSONDecodeError")
    /\ UNCHANGED <<normalsVars, mapVars, signVars, fiaVars, sessVars, Inputs, hubVars, gen, items, item, opened, img,
                   registered, tilejson_url, render_options, tiles, layer_url, got>>

\* tiles = r["tiles"][0]
ItemTiles ==
    /\ pc = "item_tiles"
    /\ IF "tiles" \in DOMAIN r_json[1]
       THEN tiles' = <<first_tile(r_json[1])>> /\ pc' = "item_map" /\ err' = err
       ELSE tiles' = tiles /\ Raise("KeyError")
    /\ NoRequest
    /\ UNCHANGED <<normalsVars, mapVars, signVars, fiaVars, sessVars, Inputs, hubVars, gen, items, item, opened, img,
                   registered, tilejson_url, render_options, layer_url, got, r_json>>

\* m.add_layer(ipyleaflet.TileLayer(url=tiles))
AddTileLayer ==
    /\ pc \in {"item_map", "mosaic_map"}
    /\ layer_url' = tiles
    /\ pc' = (IF pc = "item_map" THEN "register" ELSE "done")
    /\ NoRequest
    /\ UNCHANGED <<normalsVars, mapVars, signVars, fiaVars, sessVars, Inputs, hubVars, gen, items, item, opened, img, err,
                   registered, tilejson_url, render_options, tiles, got, r_json>>

\* r_register = requests.post(".../mosaic/register", json={...})
\* registered = r_register.json()
Register ==
    /\ pc = "register"
    /\ \E r \in HttpResponses :
        /\ Requested(r.status)
        /\ CASE r.status = "ok" ->
                    \E body \in Registrations :
                        registered' = <<body>> /\ pc' = "tilejson_url" /\ err' = err
             [] r.status = "timeout" ->
                    registered' = registered /\ Raise("ConnectionError")
             [] r.status = "5xx" /\ r.json ->
                    registered' = <<ErrorBody>> /\ pc' = "tilejson_url" /\ err' = err
             [] r.status = "5xx" /\ ~r.json ->
                    registered' = registered /\ Raise("JSONDecodeError")
    /\ UNCHANGED <<normalsVars, mapVars, signVars, fiaVars, sessVars, Inputs, hubVars, gen, items, item, opened, img,
                   tilejson_url, render_options, tiles, layer_url, got, r_json>>

\* tilejson_url = registered["links"][1]["href"]
TilejsonUrlCell ==
    /\ pc = "tilejson_url"
    /\ LET href == links_1_href(registered[1]) IN
       IF href = <<>>
       THEN Raise("KeyError") /\ tilejson_url' = tilejson_url
       ELSE tilejson_url' = href /\ pc' = "mosaic_info" /\ err' = err
    /\ NoRequest
    /\ UNCHANGED <<normalsVars, mapVars, signVars, fiaVars, sessVars, Inputs, hubVars, gen, items, item, opened, img,
                   registered, render_options, tiles, layer_url, got, r_json>>

\* mosaic_info = requests.get(".../mosaic/info",
\*                            params=dict(collection=item.collection_id)).json()
\* render_options = mosaic_info["renderOptions"][0]["options"]
MosaicInfo ==
    /\ pc = "mosaic_info"
    /\ got' = <<mosaic_info_request(item[1].collection_id)>>
    /\ \E r \in HttpResponses :
        /\ Requested(r.status)
        /\ CASE r.status = "ok" ->
                    /\ render_options' = <<RenderOptionsOf(Param(got'[1], "collection"))>>
                    /\ pc' = "tiles"
                    /\ err' = err
             [] r.status = "timeout" ->
                    render_options' = render_options /\ Raise("ConnectionError")
             [] r.status = "5xx" ->
                    /\ render_options' = render_options
                    /\ Raise(IF r.json THEN "KeyError" ELSE "JSONDecodeError")
    /\ UNCHANGED <<normalsVars, mapVars, signVars, fiaVars, sessVars, Inputs, hubVars, gen, items, item, opened, img,
                   registered, tilejson_url, tiles, layer_url, r_json>>

\* tiles = requests.get(f"{tilejson_url}?collection=...&{render_options}")
\*             .json()["tiles"][0]
MosaicTiles ==
    /\ pc = "tiles"
    /\ got' = <<requote_uri(tilejson_request(tilejson_url[1],
                                             item[1].collection_id,
                                             render_options[1]))>>
    /\ \E r \in HttpResponses :
        /\ Requested(r.status)
        /\ CASE r.status = "ok" ->
                    LET body == TilejsonBody(got'[1])
                    IN  IF "tiles" \in DOMAIN body
                        THEN tiles' = <<first_tile(body)>> /\ pc' = "mosaic_map"
                                /\ err' = err
                        ELSE tiles' = tiles /\ Raise("KeyError")
             [] r.status = "timeout" ->
                    tiles' = tiles /\ Raise("ConnectionError")
             [] r.status = "5xx" ->
                    /\ tiles' = tiles
                    /\ Raise(IF r.json THEN "KeyError" ELSE "JSONDecodeError")
    /\ UNCHANGED <<normalsVars, mapVars, signVars, fiaVars, sessVars, Inputs, hubVars, gen, items, item, opened, img,
                   registered, tilejson_url, render_options, layer_url, r_json>>

\* for key, asset in items[0].assets.items(): t_assets.add_row(...)
\* items[0] of an empty list raises IndexError. The loop leaves `asset` bound
\* to the last asset of the first item.
AssetsTable ==
    /\ pc = "assets"
    /\ IF items = <<>>
       THEN Raise("IndexError") /\ item' = item
       ELSE item' = <<items[1]>> /\ pc' = "metadata" /\ err' = err
    /\ NoRequest
    /\ UNCHANGED <<normalsVars, mapVars, signVars, fiaVars, sessVars, Inputs, mosaicVars, hubVars, gen, items, opened, img>>

\* for k, v in sorted(items[0].properties.items()): t_metadata.add_row(...)
MetadataTable ==
    /\ pc = "metadata"
    /\ pc' = "read_normals"
    /\ NoRequest
    /\ UNCHANGED <<normalsVars, mapVars, signVars, fiaVars, sessVars, Inputs, mosaicVars, hubVars, gen, items, item, opened, img, err>>

\* df = geopandas.read_parquet(asset.href, storage_options=..., columns=[...])
\* with the asset the loop of the assets table left bound.
ReadNormals ==
    /\ pc = "read_normals"
    /\ \E r \in {"ok"} \cup Transient :
        /\ Requested(r)
        /\ IF r = "ok"
           THEN /\ normals_df' = <<stations>>
                /\ opened' = Append(opened, item[1].assets.href)
                /\ pc' = "plot" /\ err' = err
           ELSE Raise("OSError") /\ UNCHANGED <<normals_df, opened>>
    /\ UNCHANGED <<shown, mapVars, signVars, fiaVars, sessVars, Inputs, mosaicVars,
                   hubVars, gen, items, item, img>>

\* ax = df.cx[-125:24, -65:50.5].plot(...)
\* contextily.add_basemap(ax, crs=..., source=...OpenStreetMap.Mapnik): the
\* slice is plotted, then the tiles of the base map are fetched.
PlotNormals ==
    /\ pc = "plot"
    /\ shown' = <<cx(normals_df[1], -1250, 240, -650, 505)>>
    /\ \E r \in {"ok"} \cup Transient :
        /\ Requested(r)
        /\ IF r = "ok" THEN pc' = "done" /\ err' = err
           ELSE Raise("HTTPError")
    /\ UNCHANGED <<normals_df, mapVars, signVars, fiaVars, sessVars, Inputs,
                   mosaicVars, hubVars, gen, items, item, opened, img>>

\* session = MLHubSession(api_key=MLHUB_API_KEY)
NewSession ==
    /\ pc = "session"
    /\ session_params' = MLHubSession_init(api_key)
    /\ pc' = "datasets"
    /\ NoRequest
    /\ UNCHANGED <<normalsVars, mapVars, signVars, fiaVars, sent, Inputs, mosaicVars, hubVars, gen, items, item,
                   opened, img, err>>

\* One call of session.get(url_argument): the request MLHubSession.request
\* sends, followed by the requests requests.Session.resolve_redirects sends
\* to the Locations of the redirects; the response is the answer to the
\* last of them.
session_get(params, u, locations) ==
    <<MLHubSession_request(params, "GET", u)>>
        \o [i \in 1..Len(locations) |-> resolve_redirects(locations[i])]

\* response = session.get("/datasets"); datasets = response.json()
\* for dataset in it.islice(datasets, dataset_limit): dataset["id"] ...
\* The loop over an error body iterates the keys of the dict and fails on
\* the subscript of the first key.
ListDatasets ==
    /\ pc = "datasets"
    /\ \E locs \in Redirects, r \in HttpResponses :
        /\ sent' = session_get(session_params, DatasetsUrl, locs)
        /\ nreq' = nreq + Len(locs) + 1 /\ last' = r.status
        /\ CASE r.status = "ok" ->
                    \E d \in DatasetLists :
                        datasets' = <<d>> /\ pc' = "crop_dataset" /\ err' = err
             [] r.status = "timeout" ->
                    datasets' = datasets /\ Raise("ConnectionError")
             [] r.status = "5xx" ->
                    IF r.json
                    THEN datasets' = <<<<"detail">>>> /\ Raise("TypeError")
                    ELSE datasets' = datasets /\ Raise("JSONDecodeError")
    /\ UNCHANGED <<normalsVars, mapVars, signVars, fiaVars, session_params, Inputs, mosaicVars, gen,
                   items, item, opened, img, archive, tmp_dir, dirs, collections>>

\* crop_dataset = next(dataset for dataset in datasets
\*                     if dataset["id"] == "ref_african_crops_kenya_02")
\* next() of the exhausted generator raises StopIteration.
CropDataset ==
    /\ pc = "crop_dataset"
    /\ IF Contains(datasets[1], "ref_african_crops_kenya_02")
       THEN pc' = "crop_collections" /\ err' = err
       ELSE Raise("StopIteration")
    /\ NoRequest
    /\ UNCHANGED <<normalsVars, mapVars, signVars, fiaVars, sessVars, Inputs, mosaicVars, hubVars, gen, items, item, opened, img>>

\* pprint(crop_dataset["collections"])
PrintCollections ==
    /\ pc = "crop_collections"
    /\ pc' = "get_collections"
    /\ NoRequest
    /\ UNCHANGED <<normalsVars, mapVars, signVars, fiaVars, sessVars, Inputs, mosaicVars, hubVars, gen, items, item, opened, img, err>>

\* collections = client.get_collections()
\* for c in it.islice(collections, 20): ...
\* get_collections() is a generator over the pages of the collections
\* endpoint; the loop takes its first 20 collections and leaves the rest in
\* it.  The name is bound before the loop asks for the first page: when that
\* request fails the exception ends the generator, which is left bound and
\* with nothing more to yield.
GetCollections ==
    /\ pc = "get_collections"
    /\ \E r \in {"ok"} \cup Transient :
        /\ Requested(r)
        /\ IF r = "ok"
           THEN \E c \in CollectionLists :
                    /\ collections' = <<islice_rest(c, collection_limit)>>
                    /\ pc' = "kenya_crops_labels" /\ err' = err
           ELSE Raise("APIError") /\ collections' = <<<<>>>>
    /\ UNCHANGED <<normalsVars, mapVars, signVars, fiaVars, sessVars, Inputs, mosaicVars, gen, items, item,
                   opened, img, archive, tmp_dir, dirs, datasets>>

\* kenya_crops_labels = next(c for c in collections
\*                           if c.id == "ref_african_crops_kenya_01_labels")
\* The generator goes on behind the collections the loop took; it may
\* request a further page, and next() raises StopIteration when the
\* collection is not among the rest.  A page request that fails raises out
\* of the generator, after the collections before it have been taken: the
\* generator is ended and has nothing more to yield.
KenyaCropsLabels ==
    /\ pc = "kenya_crops_labels"
    /\ \E r \in {"none", "ok"} \cup Transient :
        /\ IF r = "none" THEN NoRequest ELSE Requested(r)
        /\ IF r \in Transient
           THEN Raise("APIError") /\ collections' = <<<<>>>>
           ELSE LET rest == collections[1]
                    k == IndexOf(rest, "ref_african_crops_kenya_01_labels", 1)
                IN  IF k /= 0
                    THEN /\ collections' = <<SubSeq(rest, k + 1, Len(rest))>>
                         /\ pc' = "archive" /\ err' = err
                    ELSE collections' = <<<<>>>> /\ Raise("StopIteration")
    /\ UNCHANGED <<normalsVars, mapVars, signVars, fiaVars, sessVars, Inputs, mosaicVars, gen, items, item,
                   opened, img, archive, tmp_dir, dirs, datasets>>

\* tmp_dir = tempfile.mkdtemp(): a new directory, of a name no existing
\* directory has.
\* response = session.get("/archive/...", allow_redirects=True)
\* with open(archive_path, "wb") as dst: dst.write(response.content)
DownloadArchive ==
    /\ pc = "archive"
    /\ \E d \in (1..MaxDirs) \ dirs :
        tmp_dir' = <<d>> /\ dirs' = dirs \cup {d}
    /\ \E locs \in Redirects, r \in HttpResponses :
        /\ sent' = session_get(session_params, ArchiveUrl, locs)
        /\ nreq' = nreq + Len(locs) + 1 /\ last' = r.status
        /\ CASE r.status = "ok" ->
                    archive' = <<"tar.gz">> /\ pc' = "cleanup" /\ err' = err
             [] r.status = "timeout" ->
                    archive' = archive /\ Raise("ConnectionError")
             [] r.status = "5xx" ->
                    archive' = <<"error body">> /\ pc' = "cleanup" /\ err' = err
    /\ UNCHANGED <<normalsVars, mapVars, signVars, fiaVars, session_params, Inputs, mosaicVars, gen, items,
                   item, opened, img, datasets, collections>>

\* shutil.rmtree(tmp_dir): removes the directory tmp_dir names, and no other.
Cleanup ==
    /\ pc = "cleanup"
    /\ dirs' = dirs \ {tmp_dir[1]}
    /\ tmp_dir' = tmp_dir
    /\ archive' = <<>>
    /\ pc' = "done"
    /\ NoRequest
    /\ UNCHANGED <<normalsVars, mapVars, signVars, fiaVars, sessVars, Inputs, mosaicVars, gen, items, item, opened, img, err,
                   datasets, collections>>

\* The caller runs the notebook again after a failure: a new run, in a new
\* kernel and from the first cell, of the same notebook against the same
\* server. What the failed run left outside the kernel is still there: its
\* temporary directory with what was written into it, and its cluster; the
\* name of the directory is lost with the kernel. Runs are followed as long
\* as fewer than MaxDirs directories were left behind.
Reinvoke ==
    /\ pc = "error"
    /\ Cardinality(dirs) < MaxDirs
    /\ pc' = StartPc(nb)
    /\ err' = "none"
    /\ gen' = NewGen
    /\ items' = <<>>
    /\ nreq' = 0
    /\ last' = "none"
    /\ item' = <<>>
    /\ opened' = <<>>
    /\ img' = <<>>
    /\ registered' = <<>>
    /\ tilejson_url' = <<>>
    /\ render_options' = <<>>
    /\ tiles' = <<>>
    /\ layer_url' = <<>>
    /\ got' = <<>>
    /\ r_json' = <<>>
    /\ datasets' = <<>>
    /\ collections' = <<>>
    /\ attempts' = 0
    /\ session_params' = <<>>
    /\ sent' = <<>>
    /\ tmp_dir' = <<>>
    /\ selected' = 0
    /\ center' = <<>>
    /\ layer_data' = <<>>
    /\ normals_df' = <<>>
    /\ shown' = <<>>
    /\ plot' = <<>>
    /\ tree' = <<>>
    /\ result' = <<>>
    /\ gdf' = <<>>
    /\ UNCHANGED <<Inputs, archive, dirs, cluster>>

Next ==
    \/ ClientOpen
    \/ CatalogSearch
    \/ ItemCollection
    \/ Interact
    \/ Select
    \/ MapViewChanged
    \/ Matched
    \/ BestOverlap
    \/ pc_sign
    \/ create_image
    \/ LoadOldestNewest
    \/ NextItem
    \/ OpenMesh
    \/ GatewayCluster
    \/ Merge
    \/ Compute
    \/ Gather
    \/ ReadCounties
    \/ JoinCounties
    \/ GetCollection
    \/ GetItem
    \/ ReadParquet
    \/ GetDataApiItem
    \/ ItemTilejson
    \/ ItemTiles
    \/ AddTileLayer
    \/ Register
    \/ TilejsonUrlCell
    \/ MosaicInfo
    \/ MosaicTiles
    \/ AssetsTable
    \/ MetadataTable
    \/ ReadNormals
    \/ PlotNormals
    \/ NewSession
    \/ ListDatasets
    \/ CropDataset
    \/ PrintCollections
    \/ GetCollections
    \/ KenyaCropsLabels
    \/ DownloadArchive
    \/ Cleanup
    \/ Reinvoke

Spec == Init /\ [][Next]_vars

\* create_image as a function of its argument: any item of the collection,
\* whatever search it came from.
CreateImageItems ==
    {Item(1, g, d, BlobHref, <<>>, "naip") :
        g \in Geometries \cup {StripGeometry}, d \in range_old \cup range_new}

\* A call create_image(item) with the module-level area_of_interest.
CreateImageInit ==
    /\ nb = "naip"
    /\ pc = "sign"
    /\ err = "none"
    /\ \E it \in CreateImageItems : matched = <<it>> /\ item = <<it>>
    /\ max_items = 0
    /\ query = "ok"
    /\ gen = NewGen
    /\ items = <<>>
    /\ nreq = 0
    /\ last = "none"
    /\ area_of_interest \in AOIs
    /\ subscription_key \in BOOLEAN
    /\ convergence \in Convergences
    /\ attempts = 0
    /\ opened = <<>>
    /\ img = <<>>
    /\ collection = "none"
    /\ registered = <<>>
    /\ tilejson_url = <<>>
    /\ render_options = <<>>
    /\ tiles = <<>>
    /\ layer_url = <<>>
    /\ got = <<>>
    /\ r_json = <<>>
    /\ gateway = FALSE
    /\ cluster = FALSE
    /\ plot = <<>>
    /\ tree = <<>>
    /\ result = <<>>
    /\ gdf = <<>>
    /\ api_key = "none"
    /\ session_params = <<>>
    /\ sent = <<>>
    /\ selected = 0
    /\ center = <<>>
    /\ layer_data = <<>>
    /\ stations = <<>>
    /\ normals_df = <<>>
    /\ shown = <<>>
    /\ archive = <<>>
    /\ tmp_dir = <<>>
    /\ dirs = {}
    /\ datasets = <<>>
    /\ collections = <<>>

CreateImageNext ==
    \/ pc_sign
    \/ create_image

CreateImageSpec == CreateImageInit /\ [][CreateImageNext]_vars

----------------------------------------------------------------------------
(* Properties                                                               *)

\* C1: a search issued with a result cap N (max_items) hands at most N items
\* to its caller, whatever the number and the sizes of the pages the server
\* returns.
C1_AtMostN ==
    (nb \in Stac /\ max_items /= 0) => Len(items) <= max_items

\* The cap cut a longer result: more items matched than the cap, pages were
\* fetched, and the collection ended with exactly N items.
C1_Witness ==
    /\ nb = "browse" /\ pc = "done"
    /\ Len(matched) > max_items
    /\ Len(items) = max_items
    /\ nreq >= 3
    /\ last = "ok"

\* The registration holds a search identifier.
HasSearchId == registered /= <<>> /\ "searchid" \in DOMAIN registered[1]

\* The mosaic's tile template has been resolved.
MosaicTiled == nb = "data_api" /\ pc \in {"mosaic_map", "done"}

\* C2: the tile-URL template obtained by resolving the tilejson link of a
\* registration contains the searchid that registration returned.
C2_TemplateHasSearchId ==
    MosaicTiled =>
        /\ HasSearchId
        /\ tiles /= <<>>
        /\ Contains(tiles[1], registered[1].searchid)

\* A registration was resolved to a template and given to the map.
C2_Witness ==
    /\ nb = "data_api" /\ pc = "done" /\ HasSearchId
    /\ registered[1].searchid = "9e3a77c0"
    /\ layer_url = tiles
    /\ Contains(tiles[1], "9e3a77c0")

\* A step that stays within the current run (a re-invocation leaves an
\* error for the first cell).
SameRun == ~(pc = "error" /\ pc' /= "error")

\* The state of the mosaic flow.
MosaicState ==
    IF MosaicTiled THEN "Tiled"
    ELSE IF HasSearchId THEN "Registered"
    ELSE "Unregistered"

Rank(st) ==
    CASE st = "Unregistered" -> 0 [] st = "Registered" -> 1 [] st = "Tiled" -> 2

\* C3: within a run the mosaic flow only moves Unregistered -> Registered ->
\* Tiled: Registered is entered only by the registration request, answered
\* with a search identifier; Tiled is entered only from Registered, by the
\* tiles cell, after the render options were fetched; no step moves backward.
C3_MosaicOrder ==
    [][(nb = "data_api" /\ SameRun) =>
        /\ Rank(MosaicState') >= Rank(MosaicState)
        /\ (MosaicState = "Unregistered" /\ MosaicState' /= "Unregistered") =>
                /\ MosaicState' = "Registered"
                /\ pc = "register" /\ nreq' = nreq + 1 /\ last' = "ok"
        /\ (MosaicState /= "Tiled" /\ MosaicState' = "Tiled") =>
                /\ MosaicState = "Registered"
                /\ pc = "tiles"
                /\ render_options /= <<>>
                /\ tilejson_url /= <<>>
      ]_vars

\* The flow is Tiled, having been Registered and with render options fetched.
C3_Witness ==
    /\ MosaicState = "Tiled" /\ HasSearchId /\ render_options /= <<>>
    /\ pc = "mosaic_map"

\* C4: signing is idempotent on the base path: for every asset href, signing
\* it once and signing it twice both give an href whose base path (the part
\* before the query string) is the base path of the original href; the href
\* create_image opens has the base path of the item's href.
C4_SignKeepsBasePath ==
    /\ \A i \in 1..(IF nb \in Stac THEN Len(matched) ELSE 0) :
            LET h == matched[i].assets.href IN
            /\ BasePath(sign(h)) = BasePath(h)
            /\ BasePath(sign(sign(h))) = BasePath(h)
    /\ nb = "naip" =>
        \A k \in 1..Len(opened) :
            /\ BasePath(opened[k]) = BasePath(item[k].assets.href)
            /\ BasePath(sign(opened[k])) = BasePath(item[k].assets.href)

\* create_image signed an unsigned href and opened it; signing it again
\* leaves it as it is.
C4_Witness ==
    /\ nb = "naip" /\ pc = "done"
    /\ ~is_signed(item[1].assets.href)
    /\ is_signed(opened[1])
    /\ sign(opened[1]) = opened[1]

\* The items a STAC notebook got from its client.
Handed ==
    IF nb \in Stac
    THEN {items[i] : i \in 1..Len(items)} \cup {item[i] : i \in 1..Len(item)}
    ELSE {}

\* Geometry and timestamp of a handed item are those of the catalog
\* response, and its href is the catalog's href or that href with the token
\* appended.
FrameOfSigning(it) ==
    LET raw == matched[it.id] IN
    /\ it.geometry = raw.geometry
    /\ it.datetime = raw.datetime
    /\ BasePath(it.assets.href) = BasePath(raw.assets.href)
    /\ \/ it.assets.href = raw.assets.href
       \/ it.assets.href = raw.assets.href \o <<"?">> \o SASToken

\* C5 as claimed: after any catalog reads and signing steps each item's
\* geometry and timestamp equal the values of the catalog response, and the
\* only fields that changed are asset hrefs, each by appending a token to an
\* unchanged base path.
C5_OnlyHrefsChange ==
    \A it \in Handed :
        /\ FrameOfSigning(it)
        /\ it.assets.storage_options = matched[it.id].assets.storage_options

\* C5, amended: geometry and timestamp are unchanged and hrefs change only by
\* an appended token; besides the hrefs, signing may add the credential to
\* the storage options of a table asset, and changes nothing else.
C5_SigningFrame ==
    \A it \in Handed :
        LET raw == matched[it.id] IN
        /\ FrameOfSigning(it)
        /\ \/ it.assets.storage_options = raw.assets.storage_options
           \/ it.assets.storage_options =
                  raw.assets.storage_options \o <<"credential">>

\* A signing client returned items, and signing changed an asset of one.
C5_Witness ==
    /\ nb = "nicfi" /\ pc = "done"
    /\ \E it \in Handed : it.assets.href /= matched[it.id].assets.href
    /\ \E it \in Handed : it.assets.href = matched[it.id].assets.href

\* The k-th call of create_image opened its asset and ds.read returned the
\* window: the call made an image, or ended in an error of what follows the
\* read.
Fetched(k) ==
    /\ nb = "naip" /\ k <= Len(opened)
    /\ (k <= Len(img) \/ err /= "RasterioIOError")

\* C6: when the requested bounding box lies fully outside the asset's extent,
\* create_image ends with an empty result and not with an exception.
C6_OutsideIsEmpty ==
    (/\ nb = "naip" /\ Len(item) = 1 /\ Fetched(1)
     /\ Disjoint(item[1].geometry, area_of_interest))
        => (pc = "done" /\ err = "none" /\ Len(img) = 1)

\* C7: when a search matches no item and no remote call failed, the flow that
\* consumes the result does not end in an error.
C7_EmptyIsNotAnError ==
    (nb \in Stac /\ ServerSearch(nb, matched, "sort_old") = <<>> /\ last = "ok")
        => pc /= "error"

\* C8: the item selected by the area-overlap ranking has the maximal overlap
\* ratio among the candidates, and every candidate before it in input order
\* has a strictly smaller ratio: whenever a sort hands over its first item,
\* that item is such a candidate of the list that was sorted.
C8_BestOverlapFirst ==
    [][(nb = "naip" /\ Len(item') > Len(item)) =>
        \E k \in 1..Len(items) :
            /\ items[k] = item'[Len(item')]
            /\ \A j \in 1..Len(items) :
                    ~Less(area_of_overlap(items[k]), area_of_overlap(items[j]))
            /\ \A j \in 1..(k - 1) :
                    Less(area_of_overlap(items[j]), area_of_overlap(items[k]))
      ]_vars

\* Several candidates of the old range share the maximal, positive ratio,
\* and the first of them was selected although it is not the first
\* candidate.
C8_Witness ==
    /\ nb = "naip" /\ item /= <<>>
    /\ LET old == ServerSearch(nb, matched, "sort_old") IN
        /\ item[1] /= old[1]
        /\ area_of_overlap(item[1])[1] > 0
        /\ \E j \in 1..Len(old) :
                /\ old[j].id > item[1].id
                /\ area_of_overlap(old[j]) = area_of_overlap(item[1])

\* C9: no component swallows an error: when a remote call failed, the flow
\* has stopped at that call with an error, and the body of a failed answer
\* is neither parsed as the registration nor written to disk as the archive.
C9_NoErrorSwallowed ==
    /\ last \in Transient => pc = "error"
    /\ registered /= <<>> => "searchid" \in DOMAIN registered[1]
    /\ archive /= <<>> => archive[1] = "tar.gz"

\* C10: after a remote request ended in a transient failure, no step of the
\* same run issues a request, and the run is left in a failure outcome; only
\* a new invocation issues the request again.
C10_FailureEndsOperation ==
    [][(last \in Transient /\ SameRun) =>
            (nreq' = nreq /\ pc' = "error")]_vars

\* C11: a search built with a malformed filter or an unknown collection id
\* fails at the search call itself: the flow never gets past catalog.search
\* without an error, so no later cell is the first to see the failure.
C11_FailsAtSearch ==
    (nb \in Stac /\ query /= "ok") => pc \in {"open", "search", "error"}

\* C13: every item of the result of the scenario search (one collection, one
\* date, capped) has a geometry and a timestamp, and the timestamp falls on
\* the requested date: browse can read both for every entry of the dropdown.
C13_OnRequestedDate ==
    nb = "browse" =>
        \A i \in 1..Len(items) :
            /\ items[i].geometry /= <<>>
            /\ items[i].datetime /= NoDatetime
            /\ DateOf(items[i].datetime) = search_datetime

\* C14: for every fetched window of width w >= 1 and height h >= 1,
\* create_image returns an image of width 800 and of a height target_h with
\* |target_h - 800*h/w| < 1.
C14_AspectKept ==
    nb = "naip" =>
        \A k \in 1..Len(opened) :
            LET w == aoi_window(item[k])[1]
                h == aoi_window(item[k])[2]
            IN  (Fetched(k) /\ w >= 1 /\ h >= 1) =>
                    /\ k <= Len(img)
                    /\ img[k][1] = 800
                    /\ img[k][2] * w - 800 * h < w
                    /\ 800 * h - img[k][2] * w < w

\* C15: the result of a search is lazy: a step of a consumer issues a page
\* request only when every item of the pages fetched so far has been handed
\* over and the cap has not been reached, and it issues one request at most;
\* next(search.items()) is a single step on a fresh generator, so it ends
\* with one page requested.
C15_LazyPages ==
    [][(nb \in Stac /\ pc \in {"collect", "sort_old", "sort_new", "next"}
            /\ nreq' /= nreq) =>
        /\ nreq' = nreq + 1
        /\ gen.buf = <<>>
        /\ gen.st \in {"new", "suspended"}
        /\ max_items /= 0 => Len(items) < max_items
        /\ pc = "next" => (gen = NewGen /\ pc' /= "next")
      ]_vars

\* next(search.items()) returned the first item of a first page that does
\* not hold the whole result: a further page exists and was not requested.
C15_Witness ==
    /\ nb = "nicfi" /\ pc = "done" /\ item /= <<>>
    /\ gen.st = "suspended" /\ gen.buf = <<>> /\ gen.more
    /\ gen.off < Len(matched)

\* The tilejson document the map's current layer was made from: the mosaic's
\* once the mosaic map is built, the item's before.
LayerSource ==
    IF pc = "done"
    THEN TilejsonBody(requote_uri(tilejson_request(tilejson_url[1],
                                                   item[1].collection_id,
                                                   render_options[1])))
    ELSE TilejsonBody(requote_uri(item[1].assets.href))

\* C16: the template given to the map's tile layer is the first entry of the
\* `tiles` array of the tilejson response, unmodified, with its {z}/{x}/{y}
\* placeholders, in the single-item and in the mosaic flow.
C16_TemplateUnmodified ==
    (nb = "data_api" /\ layer_url /= <<>>) =>
        /\ layer_url[1] = LayerSource.tiles[1]
        /\ \A ph \in {"{z}", "{x}", "{y}@1x"} : Contains(layer_url[1], ph)

\* Both maps were built: the item's layer first, then the mosaic's, whose
\* template carries the render options of the request.
C16_Witness ==
    /\ nb = "data_api" /\ pc = "done" /\ layer_url /= <<>>
    /\ layer_url[1] /= TilejsonBody(item[1].assets.href).tiles[1]
    /\ Query(layer_url[1]) /= <<>>
    /\ Contains(layer_url[1], "{z}")

\* The request carries the key k as a `key` query parameter.
CarriesKey(req, k) == \E i \in 1..Len(req.query) : req.query[i] = <<"key", k>>

\* The MLHubSession has been constructed and used: only its get sends.
SessionMade ==
    nb = "mlhub" /\ sent /= <<>>

\* C17 as claimed: every request made through the MLHubSession, for any
\* method and any url argument, carries the API key given at construction as
\* its `key` query parameter: all the requests the session sent.
C17_KeyOnEveryRequest ==
    SessionMade =>
        \A i \in 1..Len(sent) : CarriesKey(sent[i], api_key)

\* C18: the FIA example runs without a Dask cluster: unless a remote call
\* failed the run does not stop in an error, with or without a gateway; a
\* finished run has the per-county result, and with a cluster the notebook
\* has no result before the cluster returned it.
C18_RunsWithoutCluster ==
    nb = "fia" =>
        /\ (pc = "error" => last \in Transient)
        /\ (pc = "done" => result /= <<>>)
        /\ (pc = "waiting" => result = <<>>)

\* C19: the items of the paginated, datetime-sorted search result are
\* pairwise distinct: no item identifier appears twice in the sequence given
\* to the dropdown.
C19_NoDuplicateItems ==
    nb = "browse" =>
        \A i, j \in 1..Len(items) : items[i].id = items[j].id => i = j

\* C12: with no subscription key configured the sign step always succeeds:
\* a run of create_image never ends in an error raised by pc.sign; an error
\* of the flow comes from the later open of the asset.
C12_SignNeverFails ==
    (nb = "naip" /\ ~subscription_key /\ pc = "error" /\ item /= <<>>)
        => err \notin {"RetryError", "ConnectionError"}

\* The call of browse for entry i of the dropdown got to its assignments:
\* shape(item) did not raise.
Assigned(i) == items[i].geometry /= <<>>

\* The call of browse for entry i of the dropdown returned.
Returned(i) == Assigned(i) /\ items[i].datetime /= NoDatetime

\* C20 as claimed: once a call of the browse callback has returned, whatever
\* the dropdown selections made so far, the map's centre is the (latitude,
\* longitude) of the centroid of the selected item's geometry and the GeoJSON
\* layer shows the geometry of that same item.
C20_MapShowsSelected ==
    (nb = "browse" /\ selected /= 0 /\ Returned(selected)) =>
        LET g == items[selected].geometry
        IN  /\ center /= <<>>
            /\ 2 * center[1] = g[2] + g[4]
            /\ 2 * center[2] = g[1] + g[3]
            /\ layer_data = <<g>>

\* C20, amended: every call of the browse callback that gets to its
\* assignments leaves the map's centre at the (latitude, longitude) of the
\* centroid of the item it was called with, and from then on the GeoJSON
\* layer shows the geometry of the selected item; the centre stays there
\* until the front end reports another view.
C20_CallbackSetsMap ==
    /\ []((nb = "browse" /\ selected /= 0 /\ Assigned(selected)) =>
            layer_data = <<items[selected].geometry>>)
    /\ [][(nb = "browse" /\ selected' /= selected /\ selected' /= 0
                /\ Assigned(selected')) =>
            LET g == items[selected'].geometry
            IN  /\ 2 * center'[1] = g[2] + g[4]
                /\ 2 * center'[2] = g[1] + g[3]]_vars

\* The user moved from the first entry to a second one with another
\* geometry, and the map followed.
C20_Witness ==
    /\ nb = "browse" /\ pc = "done" /\ selected = 2
    /\ items[2].geometry = <<1, 0, 3, 2>>
    /\ items[1].geometry = <<0, 0, 2, 2>>
    /\ center = <<1, 2>>

\* C21: the URL used as the mosaic's tilejson URL is the href of the link of
\* the registration response whose rel is "tilejson", whatever the order of
\* the entries of the response's links array.
C21_TilejsonByRel ==
    (nb = "data_api" /\ tilejson_url /= <<>> /\ HasSearchId) =>
        \E i \in 1..Len(registered[1].links) :
            /\ registered[1].links[i].rel = "tilejson"
            /\ registered[1].links[i].href = tilejson_url[1]

\* C22: in the mosaic flow the collection whose default render options are
\* fetched, and the collection parameter of the tilejson request, equal the
\* collection submitted in the registration body, whatever item an earlier
\* cell loaded.
C22_RegisteredCollection ==
    (nb = "data_api" /\ got /= <<>>) => Param(got[1], "collection") = collection

\* The request goes to a url under the MLHub root url.
UnderRoot(req) ==
    /\ req.host = MLHUB_ROOT_URL.host
    /\ Len(req.path) >= Len(MLHUB_ROOT_URL.path)
    /\ SubSeq(req.path, 1, Len(MLHUB_ROOT_URL.path)) = MLHUB_ROOT_URL.path

\* C23: for every url argument passed to MLHubSession.request, relative
\* ("datasets") or root-relative ("/datasets", "/archive/<id>"), the url
\* requested lies under the MLHub root url (api.radiant.earth/mlhub/v1/).
C23_UnderRootUrl ==
    (nb = "mlhub" /\ sent /= <<>>) => UnderRoot(sent[1])

\* The k-th call of create_image read at least one pixel of its asset.
PixelsRead(k) ==
    /\ Fetched(k)
    /\ aoi_read_bounds(item[k])[1] < aoi_read_bounds(item[k])[3]
    /\ aoi_read_bounds(item[k])[2] < aoi_read_bounds(item[k])[4]

\* The point <<easting, northing>> of the asset's CRS lies, as a longitude
\* and a latitude, inside the box b.
InsideBox(p, b) ==
    /\ 2 * PixelsPerDegree * b[2] <= p[2]
    /\ p[2] <= 2 * PixelsPerDegree * b[4]
    /\ 2 * PixelsPerDegree * 2 * PixelsPerDegree * b[1]
            <= 2 * PixelsPerDegree * p[1] - convergence * p[2]
    /\ 2 * PixelsPerDegree * p[1] - convergence * p[2]
            <= 2 * PixelsPerDegree * 2 * PixelsPerDegree * b[3]

\* The point lies inside the extent of the item's asset.
InsideExtentOf(p, it) ==
    /\ ds_bounds(it)[1] <= p[1] /\ p[1] <= ds_bounds(it)[3]
    /\ ds_bounds(it)[2] <= p[2] /\ p[2] <= ds_bounds(it)[4]

\* C24: create_image reprojects the requested bounds into the asset's CRS,
\* computes the window from them and reads only that window, and every
\* pixel it reads lies inside the requested bounds and inside the asset's
\* extent.  The pixels read fill a rectangle of the asset's grid, which lies
\* inside a convex region exactly when its corners do.
C24_PixelsInsideRequest ==
    \A k \in 1..Len(opened) :
        PixelsRead(k) =>
            \A p \in Corners(aoi_read_bounds(item[k])) :
                /\ InsideBox(p, area_of_interest)
                /\ InsideExtentOf(p, item[k])

\* The tree rows of the merge: condition 1, and a plot with their PLT_CN.
JoinedTrees ==
    {i \in 1..Len(tree[1]) :
        /\ tree[1][i].CONDID = 1
        /\ \E j \in 1..Len(plot[1]) : plot[1][j].CN = tree[1][i].PLT_CN}

\* The (STATECD, COUNTYCD) of the plot of the tree row i.
CountyOf(i) ==
    LET j == CHOOSE j \in 1..Len(plot[1]) : plot[1][j].CN = tree[1][i].PLT_CN
    IN  <<plot[1][j].STATECD, plot[1][j].COUNTYCD>>

RECURSIVE DecimalValue(_)
\* The number a string of decimal digits stands for.
DecimalValue(str) ==
    IF str = <<>> THEN 0
    ELSE 10 * DecimalValue(SubSeq(str, 1, Len(str) - 1))
            + (CHOOSE d \in 0..9 : DigitChars[d + 1] = str[Len(str)])

\* The (state, county) codes a row of the result or of gdf stands for.
RowKey(row) == <<DecimalValue(row["STATE"]), DecimalValue(row["COUNTY"])>>

RECURSIVE TotalOf(_, _)
\* The sum of col * TPA_UNADJ over the tree rows I.
TotalOf(I, col) ==
    IF I = {} THEN 0
    ELSE LET i == CHOOSE i \in I : TRUE
         IN  tree[1][i][col] * tree[1][i].TPA_UNADJ + TotalOf(I \ {i}, col)

\* C25: the per-county result has exactly one row for every (STATECD,
\* COUNTYCD) with at least one joined tree, and its bio and carbon are the
\* sums of DRYBIO_AG*TPA_UNADJ/2000 and CARBON_AG*TPA_UNADJ/2000 over the
\* tree rows with CONDID = 1 whose PLT_CN is the CN of a plot of that county,
\* each tree row counted once.
C25_PerCountySums ==
    (nb = "fia" /\ result /= <<>>) =>
        LET R == result[1]
            pairs == {CountyOf(i) : i \in JoinedTrees}
        IN  /\ {RowKey(R[n]) : n \in 1..Len(R)} = pairs
            /\ Len(R) = Cardinality(pairs)
            /\ \A n \in 1..Len(R) :
                    LET I == {i \in JoinedTrees : CountyOf(i) = RowKey(R[n])}
                    IN  /\ 2000 * R[n]["bio"] = TotalOf(I, "DRYBIO_AG")
                        /\ 2000 * R[n]["carbon"] = TotalOf(I, "CARBON_AG")

\* Two trees of one county, one of them in condition 2: the result has one
\* row, with the sums of the tree in condition 1.
C25_Witness ==
    /\ nb = "fia" /\ pc = "done" /\ result /= <<>>
    /\ tree[1] = <<TreeRow(1, 1), TreeRow(2, 2)>>
    /\ Len(result[1]) = 1
    /\ result[1][1]["bio"] = 2 /\ result[1][1]["carbon"] = 1

\* The plot table has been read and the tree table has not.
PlotRead == nb = "fia" /\ plot /= <<>> /\ tree = <<>>

\* C26: for every state code 0..99 and county code 0..999 the STATE and
\* COUNTY keys are strings of exactly 2 and 3 characters, the decimal code
\* left-padded with "0"; distinct (STATECD, COUNTYCD) give distinct keys, and
\* the join with the counties matches each county at most once.
C26_PaddedKeys ==
    /\ PlotRead =>
        /\ \A st \in 0..99 :
                LET k == str_pad(astype_string(st), 2, "0")
                IN  Len(k) = 2 /\ DecimalValue(k) = st
        /\ \A co \in 0..999 :
                LET k == str_pad(astype_string(co), 3, "0")
                IN  Len(k) = 3 /\ DecimalValue(k) = co
    /\ (nb = "fia" /\ result /= <<>>) =>
        LET R == result[1] IN
        /\ \A n \in 1..Len(R) :
                Len(R[n]["STATE"]) = 2 /\ Len(R[n]["COUNTY"]) = 3
        /\ \A m, n \in 1..Len(R) :
                (R[m]["STATE"] = R[n]["STATE"] /\ R[m]["COUNTY"] = R[n]["COUNTY"])
                    => m = n
    /\ (nb = "fia" /\ gdf /= <<>>) =>
        \A m, n \in 1..Len(gdf[1]) :
            (gdf[1][m]["STATE"] = gdf[1][n]["STATE"]
                /\ gdf[1][m]["COUNTY"] = gdf[1][n]["COUNTY"]) => m = n

\* Counties of the states 1 and 10 with the same county code were joined
\* with the census table, each with its own county.
C26_Witness ==
    /\ nb = "fia" /\ pc = "done" /\ gdf /= <<>>
    /\ Len(result[1]) = 2 /\ Len(gdf[1]) = 2
    /\ result[1][1]["STATE"] = <<"0", "1">>
    /\ result[1][2]["STATE"] = <<"1", "0">>
    /\ result[1][1]["COUNTY"] = <<"0", "0", "1">>
    /\ gdf[1][1]["geometry"] /= gdf[1][2]["geometry"]
    /\ gdf[1][1]["bio"] = result[1][1]["bio"]

\* C27: the map of the climate normals shows exactly the stations of the
\* contiguous states (and Puerto Rico): the slice keeps a station if and only
\* if its longitude is in [-125, -65] and its latitude in [24, 50.5].
C27_ConusSlice ==
    (nb = "normals" /\ shown /= <<>>) =>
        \A i \in 1..Len(normals_df[1]) :
            LET p == normals_df[1][i] IN
            (\E j \in 1..Len(shown[1]) : shown[1][j] = p)
                <=> (/\ -1250 <= p[1] /\ p[1] <= -650
                     /\ 240 <= p[2] /\ p[2] <= 505)

\* C28: the two items the Planet-NICFI example loads for its comparison,
\* items[0] and items[-1] of a search issued without a sort key, are the
\* oldest and the newest item of the full result: no matching item is older
\* than both or newer than both, and one of the two is as old, the other as
\* new, as any matching item.
C28_OldestAndNewest ==
    (nb = "nicfi" /\ Len(opened) >= 2) =>
        LET a == items[1].datetime
            b == items[Len(items)].datetime
            full == ServerSearch(nb, matched, "collect")
        IN  \A i \in 1..Len(full) :
                /\ full[i].datetime >= Min(a, b)
                /\ full[i].datetime <= Max(a, b)

\* C29: in the archive-download flow the temporary directory created at the
\* start is removed in the end: whenever a run has ended, also one in which
\* the archive request failed, the directory no longer exists.
C29_TmpDirRemoved ==
    (nb = "mlhub" /\ pc \in {"done", "error"}) => dirs = {}

====
